---------------------------- MODULE Spec2Model ----------------------------
(***************************************************************************)
(* State-machine model of the SunSpec proxy component                      *)
(* (components/sunspec_proxy/sunspec_proxy.{h,cpp}): the Modbus/TCP        *)
(* server, the Modbus/RTU poller, the aggregator that rewrites the SunSpec *)
(* register image, and the power-limit command translator.                 *)
(*                                                                         *)
(* Conventions.                                                            *)
(*  - C arrays are functions with a 0-based domain; byte streams (TCP      *)
(*    buffers, frames) are sequences, read with At(buf, i) for buf[i].     *)
(*  - A C float is a fixed-point integer counting 1/FloatScale units       *)
(*    (so 49.99 is 49990); NaN is the value NaN.  Rounding of the 24-bit   *)
(*    float mantissa is not modelled.                                      *)
(*  - One iteration of loop() is the sequence of steps                     *)
(*      accept -> recv (one step per active client slot) -> poll ->        *)
(*      publish,                                                           *)
(*    tracked by pc / slot.  millis() is the variable now; it advances     *)
(*    between loop iterations and across every delay(100).                 *)
(***************************************************************************)
EXTENDS Integers, Sequences, FiniteSets, TLC

(***************************************************************************)
(* Program constants (sunspec_proxy.h)                                     *)
(***************************************************************************)
SUNSPEC_BASE == 40000
HM_DATA_BASE == 4096
HM_PORT_STRIDE == 40
HM_SN_START == 1
HM_PV_VOLTAGE == 8
HM_PV_CURRENT == 9
HM_GRID_VOLTAGE == 10
HM_GRID_FREQ == 11
HM_PV_POWER == 12
HM_TODAY_PROD_H == 13
HM_TODAY_PROD_L == 14
HM_TOTAL_PROD_H == 15
HM_TOTAL_PROD_L == 16
HM_TEMPERATURE == 17
HM_OPERATING_STATUS == 30
HM_ALARM_CODE == 31
HM_LINK_STATUS == 32
HM_PORT_REGS == 40

MODEL_1_SIZE == 66
MODEL_103_SIZE == 50
MODEL_120_SIZE == 26
MODEL_123_SIZE == 24

INV_A == 0
INV_AphA == 1
INV_AphB == 2
INV_AphC == 3
INV_A_SF == 4
INV_PPVphAB == 5
INV_PPVphBC == 6
INV_PPVphCA == 7
INV_PhVphA == 8
INV_PhVphB == 9
INV_PhVphC == 10
INV_V_SF == 11
INV_W == 12
INV_W_SF == 13
INV_Hz == 14
INV_Hz_SF == 15
INV_VA == 16
INV_VA_SF == 17
INV_VAr == 18
INV_VAr_SF == 19
INV_PF == 20
INV_PF_SF == 21
INV_WH == 22
INV_WH_SF == 24
INV_DCA_SF == 26
INV_DCV_SF == 28
INV_DCW == 29
INV_DCW_SF == 30
INV_TmpCab == 31
INV_Tmp_SF == 35
INV_St == 36
INV_Evt1 == 38
INV_Evt2 == 40
INV_EvtVnd1 == 42
INV_EvtVnd2 == 44
INV_EvtVnd3 == 46
INV_EvtVnd4 == 48

MAX_TCP_CLIENTS == 4
MAX_RTU_SOURCES == 8

OFF_SUNS == 0
OFF_MODEL1 == 2
OFF_INV == 70
OFF_M120 == 122
OFF_M123 == 150
OFF_END == 176
TOTAL_REGS == 178

SENSOR_PUBLISH_INTERVAL_MS == 5000
poll_interval_ms_ == 5000
rtu_timeout_ms_ == 3000
dtu_address_ == 126

(***************************************************************************)
(* Bounds of the model                                                     *)
(***************************************************************************)
\* Largest number of configured RTU sources explored (the code allows 8).
MaxSources == 2
\* Number of loop() iterations explored.
MaxTicks == 3
\* Number of TCP requests received over a run.
MaxRequests == 2
\* Number of TCP connections the clients open over a run.
MaxConnects == 1

(***************************************************************************)
(* Machine arithmetic                                                      *)
(*                                                                         *)
(* A uint32_t is the pair <<high word, low word>> of its 16-bit halves, so *)
(* that arithmetic modulo 2^32 never leaves the range of the checker's     *)
(* integers.                                                               *)
(***************************************************************************)
U8 == 2^8
U16 == 2^16

Min(a, b) == IF a < b THEN a ELSE b
Abs(a) == IF a >= 0 THEN a ELSE -a
\* C integer division: truncation toward zero
CDiv(a, b) == IF (a >= 0) = (b > 0) THEN Abs(a) \div Abs(b) ELSE -(Abs(a) \div Abs(b))

\* (uint32_t)n for 0 <= n < 2^31
U32Of(n) == << n \div U16, n % U16 >>
\* a + n on uint32_t, 0 <= n < 2^31
U32Add(a, n) ==
  LET lo == a[2] + (n % U16)
  IN << (a[1] + (n \div U16) + (lo \div U16)) % U16, lo % U16 >>
\* a + b on uint32_t
U32Plus(a, b) ==
  LET lo == a[2] + b[2]
  IN << (a[1] + b[1] + (lo \div U16)) % U16, lo % U16 >>
\* a - b on uint32_t
U32Sub(a, b) ==
  LET lo == a[2] - b[2]
  IN << (a[1] - b[1] - (IF lo < 0 THEN 1 ELSE 0)) % U16, lo % U16 >>
\* a < b, a >= b, a > b on uint32_t
U32Lt(a, b) == a[1] < b[1] \/ (a[1] = b[1] /\ a[2] < b[2])
U32Ge(a, b) == ~U32Lt(a, b)
U32Gt(a, b) == U32Lt(b, a)
\* a / d on uint32_t for 0 < d < 2^15, as an integer (the quotient is below 2^31
\* whenever d >= 3)
U32Div(a, d) == (a[1] \div d) * U16 + (((a[1] % d) * U16 + a[2]) \div d)
\* the integer value of a uint32_t below 2^31
U32Val(a) == a[1] * U16 + a[2]

\* Fixed-point denominator standing for the C type float.
FloatScale == 10^3
\* (float)n of an integer n
F(n) == n * FloatScale
NaN == 0 - 2147483647
IsNaN(x) == x = NaN

\* buf[i] of a C byte buffer held as a sequence
At(buf, i) == buf[i + 1]

\* static uint16_t be16(const uint8_t *p)
be16(buf, i) == At(buf, i) * 256 + At(buf, i + 1)

\* static void put_be16(uint8_t *p, uint16_t v): the two bytes written
put_be16(v) == << (v \div 256) % U8, v % U8 >>

\* (int16_t) of a 16-bit word
ToS16(w) == IF w >= 32768 THEN w - U16 ELSE w

\* (uint16_t) of an int
ToU16(i) == i % U16

\* 10^n for n >= 0
RECURSIVE Pow10(_)
Pow10(n) == IF n <= 0 THEN 1 ELSE 10 * Pow10(n - 1)

\* (float)raw * powf(10.0f, (float)sf), as a fixed-point float
ScaleBySf(raw, sf) ==
  IF sf >= 0 THEN raw * FloatScale * Pow10(sf)
  ELSE CDiv(raw * FloatScale, Pow10(-sf))

\* static float apply_sf(int16_t raw, int16_t sf)
apply_sf(raw, sf) == IF raw = -32768 THEN NaN ELSE ScaleBySf(raw, sf)

\* static float apply_sf_u16(uint16_t raw, int16_t sf)
apply_sf_u16(raw, sf) == IF raw = 65535 THEN NaN ELSE ScaleBySf(raw, sf)

\* (int)f : truncation toward zero
FloatToInt(f) == CDiv(f, FloatScale)

\* (uint16_t)f for a float f: truncation; outside 0..65535 the conversion is
\* undefined behaviour in C and the result is the value ub.
FloatToU16(f, ub) ==
  LET t == CDiv(f, FloatScale)
  IN IF t >= 0 /\ t < U16 THEN t ELSE ub

\* (uint32_t)f for a float f; a negative f is undefined behaviour and the
\* result is then the word ub in both halves.
FloatToU32(f, ub) ==
  LET t == CDiv(f, FloatScale)
  IN IF t >= 0 THEN U32Of(t) ELSE << ub, ub >>

\* a * b and a / b on floats (b # 0); a * n and a / n for an integral n
FMul(a, b) == CDiv(a * b, FloatScale)
FDiv(a, b) == CDiv(a * FloatScale, b)
FMulI(a, n) == a * n
FDivI(a, n) == CDiv(a, n)

\* sqrtf: floor of the square root, in fixed point
RECURSIVE ISqrtFrom(_, _)
ISqrtFrom(n, r) == IF (r + 1) * (r + 1) > n THEN r ELSE ISqrtFrom(n, r + 1)
FSqrt(a) == ISqrtFrom(a * FloatScale, 0)

(***************************************************************************)
(* Strings: a C string is the sequence of its character codes              *)
(***************************************************************************)
\* strncpy(dst, s, n); dst[n] = 0 : the first n characters of s
StrN(s, n) == SubSeq(s, 1, Min(Len(s), n))

\* static void write_string_regs(uint16_t *regs, const char *str, int max_regs):
\* the max_regs words written
write_string_regs(str, max_regs) ==
  LET len == Min(Len(str), max_regs * 2)
  IN [k \in 0..(max_regs - 1) |->
        (IF 2 * k < len THEN str[2 * k + 1] * 256 ELSE 0)
        + (IF 2 * k + 1 < len THEN str[2 * k + 2] ELSE 0)]

\* arr[off + k] = vals[k] for every k of the 0-based array vals
SetRange(arr, off, vals) ==
  [i \in DOMAIN arr |-> IF (i - off) \in DOMAIN vals THEN vals[i - off] ELSE arr[i]]

\* for (k = 0; k < n; k++) arr[off + k] = v
Fill(arr, off, n, v) ==
  [i \in DOMAIN arr |-> IF i >= off /\ i < off + n THEN v ELSE arr[i]]

\* A faulty variant of Assign that leaves out the last assignment.
RECURSIVE Assign_dropLast(_, _)
Assign_dropLast(arr, ps) ==
  IF Len(ps) <= 1 THEN arr
  ELSE Assign_dropLast([arr EXCEPT ![ps[1][1]] = ps[1][2]], Tail(ps))

\* the assignments arr[ps[1][1]] = ps[1][2]; arr[ps[2][1]] = ps[2][2]; ... in order
RECURSIVE Assign(_, _)
Assign(arr, ps) ==
  IF ps = << >> THEN arr
  ELSE Assign([arr EXCEPT ![ps[1][1]] = ps[1][2]], Tail(ps))

(***************************************************************************)
(* Configuration (the setters of sunspec_proxy.h and add_rtu_source)       *)
(***************************************************************************)
\* "Fronius", "HM-AGG", "HM-BRIDGE-001", "1.1.0" and two inverter serials
StrFronius == << 70, 114, 111, 110, 105, 117, 115 >>
StrModelName == << 72, 77, 45, 65, 71, 71 >>
StrBridgeSerial == << 72, 77, 45, 66, 82, 73, 68, 71, 69, 45, 48, 48, 49 >>
StrVersion == << 49, 46, 49, 46, 48 >>
StrInvSerial == << 49, 49, 54, 49 >>

\* struct RtuSource as add_rtu_source leaves it (memset 0, then the
\* configured fields).  name and model are used for logging only.
add_rtu_source(port_number, phases, rated_power_w, connected_phase, mppt_inputs, serial) ==
  [ port_number |-> port_number,
    phases |-> phases,
    connected_phase |-> IF phases = 1 THEN connected_phase ELSE 0,
    rated_power_w |-> rated_power_w,
    mppt_inputs |-> mppt_inputs,
    serial_number |-> StrN(serial, 32),
    serial_from_dtu |-> << >>,
    raw_regs |-> [k \in 0..(MODEL_103_SIZE - 1) |-> 0],
    data_valid |-> FALSE,
    last_poll_ms |-> 0,
    initial_model1_read |-> FALSE,
    poll_success_count |-> 0,
    poll_fail_count |-> 0,
    poll_timeout_count |-> 0,
    crc_error_count |-> 0,
    power_w |-> 0, current_a |-> 0, voltage_v |-> 0, frequency_hz |-> 0,
    energy_kwh |-> 0, today_energy_wh |-> 0, temperature_c |-> 0,
    pv_voltage_v |-> 0, pv_current_a |-> 0, pv_power_w |-> 0,
    alarm_code |-> 0, alarm_count |-> 0, link_status |-> 0,
    operating_status |-> 0,
    producing |-> FALSE ]

\* A faulty variant of NumSourcesAfter without the test of MAX_RTU_SOURCES.
RECURSIVE NumSourcesAfter_noCap(_)
NumSourcesAfter_noCap(calls) ==
  IF calls = 0 THEN 0 ELSE NumSourcesAfter_noCap(calls - 1) + 1

\* num_sources_ after `calls` calls of add_rtu_source: a call with
\* num_sources_ >= MAX_RTU_SOURCES returns before it stores anything.
RECURSIVE NumSourcesAfter(_)
NumSourcesAfter(calls) ==
  IF calls = 0 THEN 0
  ELSE IF NumSourcesAfter(calls - 1) >= MAX_RTU_SOURCES THEN NumSourcesAfter(calls - 1)
  ELSE NumSourcesAfter(calls - 1) + 1

\* The configurations explored.  Layout "asc": a single-phase aggregate
\* served as unit 126, single-phase sources at DTU ports 0, 1, 2, ... on
\* L1, L2, L3, ..., serial read from the DTU.  Layout "desc": a three-phase
\* aggregate served as unit 1, sources at ports n, n-1, ..., 1, the first
\* of them three-phase, with a configured serial.
Layouts == {"asc", "desc"}

ConfigSources(n, layout) ==
  [i \in 0..(n - 1) |->
     IF layout = "asc"
     THEN add_rtu_source(i, 1, 800, (i % 3) + 1, 2, << >>)
     ELSE add_rtu_source(n - i, IF i = 0 THEN 3 ELSE 1, 2000, 2, 4, StrInvSerial)]

\* AggregatedConfig after the setters and the sums of setup()
\* (rated_power_w is a uint16_t sum, rated_current_a a float sum).
RECURSIVE SumRatedPower(_, _)
SumRatedPower(srcs, n) ==
  IF n = 0 THEN 0 ELSE (SumRatedPower(srcs, n - 1) + srcs[n - 1].rated_power_w) % U16

RECURSIVE SumRatedCurrent(_, _, _)
SumRatedCurrent(srcs, n, rated_voltage_v) ==
  IF n = 0 THEN 0
  ELSE SumRatedCurrent(srcs, n - 1, rated_voltage_v)
       + (IF rated_voltage_v > 0
          THEN FDiv(F(srcs[n - 1].rated_power_w), F(rated_voltage_v)) ELSE 0)

ConfigAgg(n, layout) ==
  LET srcs == ConfigSources(n, layout)
      rv == 230
  IN [ unit_id |-> IF layout = "asc" THEN 126 ELSE 1,
       phases |-> IF layout = "asc" THEN 1 ELSE 3,
       rated_voltage_v |-> rv,
       rated_power_w |-> SumRatedPower(srcs, n),
       rated_current_a |-> SumRatedCurrent(srcs, n, rv),
       manufacturer |-> StrN(StrFronius, 31),
       model_name |-> StrN(StrModelName, 31),
       serial_number |-> StrN(StrBridgeSerial, 31) ]

(***************************************************************************)
(* Static register map                                                     *)
(***************************************************************************)
\* void SunSpecProxy::build_static_registers_()
build_static_registers_(agg) ==
  LET M1 == OFF_MODEL1 + 2
      INV == OFF_INV + 2
      M120 == OFF_M120 + 2
      M123 == OFF_M123 + 2
      r0 == [i \in 0..(TOTAL_REGS - 1) |-> 65535]
      r1 == Assign(r0, << <<OFF_SUNS, 21365>>, <<OFF_SUNS + 1, 28243>>,
                          <<OFF_MODEL1, 1>>, <<OFF_MODEL1 + 1, MODEL_1_SIZE>> >>)
      r2 == Fill(r1, M1, MODEL_1_SIZE, 0)
      r3 == SetRange(r2, M1 + 0, write_string_regs(agg.manufacturer, 16))
      r4 == SetRange(r3, M1 + 16, write_string_regs(agg.model_name, 16))
      r5 == SetRange(r4, M1 + 40, write_string_regs(StrVersion, 8))
      r6 == SetRange(r5, M1 + 48, write_string_regs(agg.serial_number, 16))
      r7 == Assign(r6, << <<M1 + 64, agg.unit_id>>, <<M1 + 65, 32768>>,
                          <<OFF_INV, IF agg.phases = 3 THEN 103 ELSE 101>>,
                          <<OFF_INV + 1, MODEL_103_SIZE>> >>)
      r8 == Fill(r7, INV, MODEL_103_SIZE, 65535)
      r9 == Assign(r8, << <<INV + INV_A_SF, ToU16(-2)>>,
                          <<INV + INV_V_SF, ToU16(-1)>>,
                          <<INV + INV_W_SF, ToU16(0)>>,
                          <<INV + INV_Hz_SF, ToU16(-2)>>,
                          <<INV + INV_VA_SF, ToU16(0)>>,
                          <<INV + INV_VAr_SF, ToU16(0)>>,
                          <<INV + INV_PF_SF, ToU16(-2)>>,
                          <<INV + INV_WH_SF, ToU16(0)>>,
                          <<INV + INV_DCA_SF, ToU16(-2)>>,
                          <<INV + INV_DCV_SF, ToU16(-1)>>,
                          <<INV + INV_DCW_SF, ToU16(0)>>,
                          <<INV + INV_Tmp_SF, ToU16(-1)>>,
                          <<INV + INV_St, 2>>,
                          <<INV + INV_Evt1, 0>>, <<INV + INV_Evt1 + 1, 0>>,
                          <<INV + INV_Evt2, 0>>, <<INV + INV_Evt2 + 1, 0>>,
                          <<INV + INV_EvtVnd1, 0>>, <<INV + INV_EvtVnd1 + 1, 0>>,
                          <<INV + INV_EvtVnd2, 0>>, <<INV + INV_EvtVnd2 + 1, 0>>,
                          <<INV + INV_EvtVnd3, 0>>, <<INV + INV_EvtVnd3 + 1, 0>>,
                          <<INV + INV_EvtVnd4, 0>>, <<INV + INV_EvtVnd4 + 1, 0>>,
                          <<OFF_M120, 120>>, <<OFF_M120 + 1, MODEL_120_SIZE>> >>)
      r10 == Fill(r9, M120, MODEL_120_SIZE, 65535)
      r11 == Assign(r10, << <<M120 + 0, 4>>,
                            <<M120 + 1, agg.rated_power_w>>,
                            <<M120 + 2, 0>>,
                            <<M120 + 3, agg.rated_power_w>>,
                            <<M120 + 4, 0>>,
                            <<M120 + 10, FloatToU16(FMulI(agg.rated_current_a, 10), 65535)>>,
                            <<M120 + 11, ToU16(-1)>>,
                            <<OFF_M123, 123>>, <<OFF_M123 + 1, MODEL_123_SIZE>> >>)
      r12 == Fill(r11, M123, MODEL_123_SIZE, 65535)
  IN Assign(r12, << <<M123 + 2, 1>>,
                    <<M123 + 3, ToU16(-1)>>,
                    <<M123 + 5, 1000>>,
                    <<M123 + 8, 0>>,
                    <<OFF_END, 65535>>, <<OFF_END + 1, 0>> >>)

(***************************************************************************)
(* Aggregation                                                             *)
(***************************************************************************)
\* The status text update_source_status_ publishes for source s at time t
\* ("Stale (..s)", "Producing ..W" with the power, "Idle"); "" when it
\* returns without publishing.
update_source_status_(s, t) ==
  IF ~s.data_valid THEN << "", 0 >>
  ELSE LET age_s == U32Div(U32Sub(t, s.last_poll_ms), 1000)
           stale == age_s > (poll_interval_ms_ \div 1000) * 3
       IN IF stale THEN << "Stale", age_s >>
          ELSE IF s.producing THEN << "Producing", s.power_w >>
          ELSE << "Idle", 0 >>

\* The accumulators of aggregate_and_update_registers_ before its loop
AggStart(srcs, status) ==
  [ phase_power |-> << 0, 0, 0 >>,
    phase_current |-> << 0, 0, 0 >>,
    phase_voltage_sum |-> << 0, 0, 0 >>,
    phase_voltage_count |-> << 0, 0, 0 >>,
    total_power |-> 0, total_current |-> 0,
    sum_freq |-> 0, total_va |-> 0, total_var |-> 0,
    total_energy_wh |-> << 0, 0 >>,
    max_temp |-> NaN,
    total_dc_power |-> 0,
    valid_count |-> 0,
    any_producing |-> FALSE,
    srcs |-> srcs,
    status |-> status ]

NZ(x) == IF IsNaN(x) THEN 0 ELSE x
AddAt(t, k, v) == [t EXCEPT ![k] = t[k] + v]

\* The values one iteration of the loop of aggregate_and_update_registers_
\* decodes from s.raw_regs with the scale factors found there.
DecodeRaw(s, ub) ==
  LET r == s.raw_regs
      a_sf == ToS16(r[INV_A_SF])
      v_sf == ToS16(r[INV_V_SF])
  IN [ pw |-> apply_sf(ToS16(r[INV_W]), ToS16(r[INV_W_SF])),
       cur |-> apply_sf_u16(r[INV_A], a_sf),
       i_a |-> apply_sf_u16(r[INV_AphA], a_sf),
       i_b |-> apply_sf_u16(r[INV_AphB], a_sf),
       i_c |-> apply_sf_u16(r[INV_AphC], a_sf),
       v_a |-> apply_sf_u16(r[INV_PhVphA], v_sf),
       v_b |-> apply_sf_u16(r[INV_PhVphB], v_sf),
       v_c |-> apply_sf_u16(r[INV_PhVphC], v_sf),
       va |-> apply_sf(ToS16(r[INV_VA]), ToS16(r[INV_VA_SF])),
       var_ |-> apply_sf(ToS16(r[INV_VAr]), ToS16(r[INV_VAr_SF])),
       freq |-> apply_sf(ToS16(r[INV_Hz]), ToS16(r[INV_Hz_SF])),
       e_wh |-> FloatToU32(ScaleBySf(U32Val(<< r[INV_WH], r[INV_WH + 1] >>),
                                     ToS16(r[INV_WH_SF])), ub),
       temp |-> apply_sf(ToS16(r[INV_TmpCab]), ToS16(r[INV_Tmp_SF])),
       dcp |-> apply_sf(ToS16(r[INV_DCW]), ToS16(r[INV_DCW_SF])) ]

\* "Update source decoded values": the fields of s the iteration overwrites;
\* d is DecodeRaw(s, ub).  Both branches on s.phases store the phase-A
\* voltage, or 0 when it is NaN.
StoreDecoded(s, d) ==
  [s EXCEPT !.power_w = NZ(d.pw),
            !.current_a = NZ(d.cur),
            !.voltage_v = NZ(d.v_a),
            !.frequency_hz = NZ(d.freq),
            !.energy_kwh = FDivI(F(U32Val(d.e_wh)), 1000),
            !.temperature_c = IF IsNaN(d.temp) THEN @ ELSE d.temp,
            !.producing = (NZ(d.pw) > 0)]

\* The accumulators after the iteration for source i (a source with
\* data_valid); s is acc.srcs[i], d is DecodeRaw(s, ub), ph the 1-based index
\* of the phase a single-phase source is connected to, s2 the source after
\* StoreDecoded.
AggAdd(acc, i, s, d, ph, s2, t) ==
  LET three == s.phases = 3
      total_i == NZ(d.i_a) + NZ(d.i_b) + NZ(d.i_c)
      i_a1 == IF IsNaN(d.i_a) THEN d.cur ELSE d.i_a
  IN [ acc EXCEPT
         !.valid_count = @ + 1,
         !.total_power = @ + NZ(d.pw),
         !.any_producing = @ \/ (~IsNaN(d.pw) /\ d.pw > 0),
         !.total_current = @ + NZ(d.cur),
         !.phase_current =
            IF three
            THEN << @[1] + NZ(d.i_a), @[2] + NZ(d.i_b), @[3] + NZ(d.i_c) >>
            ELSE AddAt(@, ph, NZ(i_a1)),
         !.phase_voltage_sum =
            IF three
            THEN << @[1] + NZ(d.v_a), @[2] + NZ(d.v_b), @[3] + NZ(d.v_c) >>
            ELSE AddAt(@, ph, NZ(d.v_a)),
         !.phase_voltage_count =
            IF three
            THEN << @[1] + (IF IsNaN(d.v_a) THEN 0 ELSE 1),
                    @[2] + (IF IsNaN(d.v_b) THEN 0 ELSE 1),
                    @[3] + (IF IsNaN(d.v_c) THEN 0 ELSE 1) >>
            ELSE AddAt(@, ph, IF IsNaN(d.v_a) THEN 0 ELSE 1),
         !.phase_power =
            IF IsNaN(d.pw) THEN @
            ELSE IF three
            THEN IF total_i > 0
                 THEN << @[1] + FDiv(FMul(d.pw, NZ(d.i_a)), total_i),
                         @[2] + FDiv(FMul(d.pw, NZ(d.i_b)), total_i),
                         @[3] + FDiv(FMul(d.pw, NZ(d.i_c)), total_i) >>
                 ELSE << @[1] + FDivI(d.pw, 3), @[2] + FDivI(d.pw, 3), @[3] + FDivI(d.pw, 3) >>
            ELSE AddAt(@, ph, d.pw),
         !.total_va = @ + NZ(d.va),
         !.total_var = @ + NZ(d.var_),
         !.sum_freq = @ + NZ(d.freq),
         !.total_energy_wh = U32Plus(@, d.e_wh),
         !.max_temp = IF IsNaN(d.temp) THEN @
                      ELSE IF IsNaN(@) \/ d.temp > @ THEN d.temp ELSE @,
         !.total_dc_power = @ + NZ(d.dcp),
         !.srcs = [@ EXCEPT ![i] = s2],
         !.status = [@ EXCEPT ![i] = update_source_status_(s2, t)] ]

\* int ph = s.connected_phase - 1; if (ph < 0 || ph > 2) ph = 0;  (1-based here)
PhaseIndex(s) ==
  IF s.connected_phase - 1 < 0 \/ s.connected_phase - 1 > 2 THEN 1 ELSE s.connected_phase

\* One iteration (source i) of the loop of aggregate_and_update_registers_,
\* for a source with data_valid.
AggSource(acc, i, s, d, t) ==
  AggAdd(acc, i, s, d, PhaseIndex(s), StoreDecoded(s, d), t)

\* for (int i = 0; i < num_sources_; i++) { if (!s.data_valid) continue; ... }
RECURSIVE AggLoop(_, _, _, _, _)
AggLoop(acc, i, n, t, ub) ==
  IF i >= n THEN acc
  ELSE AggLoop(IF acc.srcs[i].data_valid
               THEN AggSource(acc, i, acc.srcs[i], DecodeRaw(acc.srcs[i], ub), t)
               ELSE acc,
               i + 1, n, t, ub)

\* The per-phase average voltages of the accumulators
AvgVoltage(acc) ==
  [p \in 1..3 |->
     IF acc.phase_voltage_count[p] > 0
     THEN FDivI(acc.phase_voltage_sum[p], acc.phase_voltage_count[p])
     ELSE 0]

\* sqrtf(a*a + b*b + a*b)
LineVoltage(a, b) == FSqrt(FMul(a, a) + FMul(b, b) + FMul(a, b))

\* aggregate_and_update_registers_ after its loop: "Write to SunSpec
\* registers", given the accumulators acc and avg_v = AvgVoltage(acc).
AggWrite(acc, avg_v, map, aggv, agg_phases, ub) ==
  LET INV == OFF_INV + 2
      pf0 == FDiv(acc.total_power, acc.total_va)
      mean_freq == FDivI(acc.sum_freq, acc.valid_count)
  IN IF acc.valid_count = 0
     THEN [ srcs |-> acc.srcs,
            map |-> [map EXCEPT ![INV + INV_St] = 2],
            aggv |-> [aggv EXCEPT !.power_w = 0, !.current_a = 0,
                                  !.voltage_v = 0, !.frequency_hz = 0],
            status |-> acc.status ]
     ELSE [ srcs |-> acc.srcs,
            map |-> Assign(map,
              << <<INV + INV_W, ToU16(FloatToInt(acc.total_power))>>,
                 <<INV + INV_A, FloatToU16(FMulI(acc.total_current, 100), ub)>>,
                 <<INV + INV_AphA, FloatToU16(FMulI(acc.phase_current[1], 100), ub)>>,
                 <<INV + INV_AphB, FloatToU16(FMulI(acc.phase_current[2], 100), ub)>>,
                 <<INV + INV_AphC, FloatToU16(FMulI(acc.phase_current[3], 100), ub)>>,
                 <<INV + INV_PhVphA, FloatToU16(FMulI(avg_v[1], 10), ub)>>,
                 <<INV + INV_PhVphB, FloatToU16(FMulI(avg_v[2], 10), ub)>>,
                 <<INV + INV_PhVphC, FloatToU16(FMulI(avg_v[3], 10), ub)>> >>
              \o (IF agg_phases = 3
                  THEN << <<INV + INV_PPVphAB,
                            FloatToU16(FMulI(LineVoltage(avg_v[1], avg_v[2]), 10), ub)>>,
                          <<INV + INV_PPVphBC,
                            FloatToU16(FMulI(LineVoltage(avg_v[2], avg_v[3]), 10), ub)>>,
                          <<INV + INV_PPVphCA,
                            FloatToU16(FMulI(LineVoltage(avg_v[3], avg_v[1]), 10), ub)>> >>
                  ELSE << >>)
              \o << <<INV + INV_Hz, FloatToU16(FMulI(mean_freq, 100), ub)>>,
                    <<INV + INV_VA, ToU16(FloatToInt(acc.total_va))>>,
                    <<INV + INV_VAr, ToU16(FloatToInt(acc.total_var))>> >>
              \o (IF acc.total_va > 0
                  THEN << <<INV + INV_PF,
                            ToU16(FloatToInt(FMulI(IF pf0 > F(1) THEN F(1) ELSE pf0, 100)))>> >>
                  ELSE << >>)
              \o << <<INV + INV_WH, acc.total_energy_wh[1]>>,
                    <<INV + INV_WH + 1, acc.total_energy_wh[2]>> >>
              \o (IF ~IsNaN(acc.max_temp)
                  THEN << <<INV + INV_TmpCab, ToU16(FloatToInt(FMulI(acc.max_temp, 10)))>> >>
                  ELSE << >>)
              \o (IF acc.total_dc_power > 0
                  THEN << <<INV + INV_DCW, ToU16(FloatToInt(acc.total_dc_power))>> >>
                  ELSE << >>)
              \o << <<INV + INV_St, IF acc.any_producing THEN 4 ELSE 2>> >>),
            aggv |-> [ power_w |-> acc.total_power,
                       current_a |-> acc.total_current,
                       voltage_v |-> avg_v[1],
                       frequency_hz |-> mean_freq,
                       energy_kwh |-> FDivI(F(U32Val(acc.total_energy_wh)), 1000) ],
            status |-> acc.status ]

\* aggregate_and_update_registers_ after its loop
\* A faulty variant of the register writes of aggregate_and_update_registers_
\* that stores the cabinet temperature one word too far, over Tmp_SF.
AggFinish_overSF(acc, map, aggv, agg_phases, ub) ==
  LET res == AggWrite(acc, AvgVoltage(acc), map, aggv, agg_phases, ub)
  IN [res EXCEPT !.map = [@ EXCEPT ![OFF_INV + 2 + INV_Tmp_SF] =
                                      res.map[OFF_INV + 2 + INV_TmpCab]]]

AggFinish(acc, map, aggv, agg_phases, ub) ==
  AggWrite(acc, AvgVoltage(acc), map, aggv, agg_phases, ub)

\* void SunSpecProxy::aggregate_and_update_registers_(): the sources, the
\* register map, the aggregate decoded values and the published status
\* texts it leaves.  t is millis(); agg_phases is agg_config_.phases.
aggregate_and_update_registers_(srcs, n, map, aggv, status, agg_phases, t, ub) ==
  AggFinish(AggLoop(AggStart(srcs, status), 0, n, t, ub), map, aggv, agg_phases, ub)

(***************************************************************************)
(* RTU frames                                                              *)
(***************************************************************************)
\* An 8-byte request frame put on the RS-485 bus: address, function code,
\* the two big-endian words after them (the CRC trailer is computed from
\* these), and whether rtu_busy_ was set when write_array() emitted it.
RtuFrame(address, function, w1, w2, busy) ==
  [ addr |-> address, fc |-> function, reg |-> w1, val |-> w2, busy |-> busy ]

\* A faulty variant of forward_power_limit_ that does not raise a limit
\* below 2 % to 2 %.
RECURSIVE forward_power_limit_noFloor(_, _, _, _, _)
forward_power_limit_noFloor(srcs, n, pct_raw, enabled, busy) ==
  IF n = 0 THEN << >>
  ELSE LET i == n - 1
           port == srcs[i].port_number
           onoff_reg == (49158 + port * 6) % U16
           limit_reg == (49159 + port * 6) % U16
           hm0 == pct_raw \div 10
           hm_pct == IF hm0 > 100 THEN 100 ELSE hm0
       IN forward_power_limit_noFloor(srcs, i, pct_raw, enabled, busy)
          \o (IF enabled
              THEN << RtuFrame(dtu_address_, 6, limit_reg, hm_pct, busy),
                      RtuFrame(dtu_address_, 5, onoff_reg, 65280, busy) >>
              ELSE << RtuFrame(dtu_address_, 6, limit_reg, 100, busy) >>)

\* A faulty variant of forward_power_limit_ that switches a port on before
\* it writes the port's limit.
RECURSIVE forward_power_limit_coilFirst(_, _, _, _, _)
forward_power_limit_coilFirst(srcs, n, pct_raw, enabled, busy) ==
  IF n = 0 THEN << >>
  ELSE LET i == n - 1
           port == srcs[i].port_number
           onoff_reg == (49158 + port * 6) % U16
           limit_reg == (49159 + port * 6) % U16
           hm0 == pct_raw \div 10
           hm1 == IF hm0 < 2 THEN 2 ELSE hm0
           hm_pct == IF hm1 > 100 THEN 100 ELSE hm1
       IN forward_power_limit_coilFirst(srcs, i, pct_raw, enabled, busy)
          \o (IF enabled
              THEN << RtuFrame(dtu_address_, 5, onoff_reg, 65280, busy),
                      RtuFrame(dtu_address_, 6, limit_reg, hm_pct, busy) >>
              ELSE << RtuFrame(dtu_address_, 6, limit_reg, 100, busy) >>)

\* A faulty variant of forward_power_limit_ that, with the limit disabled,
\* also clears the on/off coil of the port.
RECURSIVE forward_power_limit_coilOff(_, _, _, _, _)
forward_power_limit_coilOff(srcs, n, pct_raw, enabled, busy) ==
  IF n = 0 THEN << >>
  ELSE LET i == n - 1
           port == srcs[i].port_number
           onoff_reg == (49158 + port * 6) % U16
           limit_reg == (49159 + port * 6) % U16
           hm0 == pct_raw \div 10
           hm1 == IF hm0 < 2 THEN 2 ELSE hm0
           hm_pct == IF hm1 > 100 THEN 100 ELSE hm1
       IN forward_power_limit_coilOff(srcs, i, pct_raw, enabled, busy)
          \o (IF enabled
              THEN << RtuFrame(dtu_address_, 6, limit_reg, hm_pct, busy),
                      RtuFrame(dtu_address_, 5, onoff_reg, 65280, busy) >>
              ELSE << RtuFrame(dtu_address_, 6, limit_reg, 100, busy),
                      RtuFrame(dtu_address_, 5, onoff_reg, 0, busy) >>)

\* void SunSpecProxy::forward_power_limit_(uint16_t pct_raw, bool enabled):
\* the frames written, in order.  Each frame is followed by delay(100).
RECURSIVE forward_power_limit_(_, _, _, _, _)
forward_power_limit_(srcs, n, pct_raw, enabled, busy) ==
  IF n = 0 THEN << >>
  ELSE LET i == n - 1
           port == srcs[i].port_number
           onoff_reg == (49158 + port * 6) % U16
           limit_reg == (49159 + port * 6) % U16
           hm0 == pct_raw \div 10
           hm1 == IF hm0 < 2 THEN 2 ELSE hm0
           hm_pct == IF hm1 > 100 THEN 100 ELSE hm1
       IN forward_power_limit_(srcs, i, pct_raw, enabled, busy)
          \o (IF enabled
              THEN << RtuFrame(dtu_address_, 6, limit_reg, hm_pct, busy),
                      RtuFrame(dtu_address_, 5, onoff_reg, 65280, busy) >>
              ELSE << RtuFrame(dtu_address_, 6, limit_reg, 100, busy) >>)

(***************************************************************************)
(* SunSpec register access                                                 *)
(***************************************************************************)
\* A faulty variant of read_sunspec_registers_ that refuses a range ending
\* on the last register of the map (>= instead of >).
read_sunspec_registers_strict(map, start_reg, count) ==
  IF start_reg < SUNSPEC_BASE THEN [ ok |-> FALSE, out |-> << >>, copied |-> FALSE ]
  ELSE LET off == start_reg - SUNSPEC_BASE
       IN IF off + count >= TOTAL_REGS
          THEN [ ok |-> FALSE, out |-> << >>, copied |-> FALSE ]
          ELSE [ ok |-> TRUE,
                 out |-> [k \in 1..count |-> map[off + k - 1]],
                 copied |-> TRUE ]

\* A faulty variant of read_sunspec_registers_ that copies from one word
\* past the requested offset.
read_sunspec_registers_shifted(map, start_reg, count) ==
  IF start_reg < SUNSPEC_BASE THEN [ ok |-> FALSE, out |-> << >>, copied |-> FALSE ]
  ELSE LET off == start_reg - SUNSPEC_BASE
       IN IF off + count > TOTAL_REGS
          THEN [ ok |-> FALSE, out |-> << >>, copied |-> FALSE ]
          ELSE [ ok |-> TRUE,
                 out |-> [k \in 1..count |-> map[(off + k) % TOTAL_REGS]],
                 copied |-> TRUE ]

\* A faulty variant of read_sunspec_registers_ that copies the first half of
\* the range and leaves the rest of out as it was (zeros).
read_sunspec_registers_torn(map, start_reg, count) ==
  IF start_reg < SUNSPEC_BASE THEN [ ok |-> FALSE, out |-> << >>, copied |-> FALSE ]
  ELSE LET off == start_reg - SUNSPEC_BASE
       IN IF off + count > TOTAL_REGS
          THEN [ ok |-> FALSE, out |-> << >>, copied |-> FALSE ]
          ELSE [ ok |-> TRUE,
                 out |-> [k \in 1..count |->
                            IF 2 * k <= count + 1 THEN map[off + k - 1] ELSE 0],
                 copied |-> TRUE ]

\* bool SunSpecProxy::read_sunspec_registers_(start_reg, count, out):
\* the return value and the words copied to out
read_sunspec_registers_(map, start_reg, count) ==
  IF start_reg < SUNSPEC_BASE THEN [ ok |-> FALSE, out |-> << >>, copied |-> FALSE ]
  ELSE LET off == start_reg - SUNSPEC_BASE
       IN IF off + count > TOTAL_REGS
          THEN [ ok |-> FALSE, out |-> << >>, copied |-> FALSE ]
          ELSE [ ok |-> TRUE,
                 out |-> [k \in 1..count |-> map[off + k - 1]],
                 copied |-> TRUE ]

\* A faulty variant of write_sunspec_registers_ whose writable area starts
\* at the header of Model 123 (OFF_M123 instead of OFF_M123 + 2).
write_sunspec_registers_header(map, srcs, n, busy, start_reg, count, values) ==
  IF start_reg < SUNSPEC_BASE THEN [ ok |-> FALSE, map |-> map, frames |-> << >> ]
  ELSE LET off == start_reg - SUNSPEC_BASE
           written == [i \in DOMAIN map |->
                         IF i >= off /\ i < off + count THEN values[i - off + 1] ELSE map[i]]
           changed == \E r \in off..(off + count - 1) :
                         r = OFF_M123 + 2 + 5 \/ r = OFF_M123 + 2 + 8
       IN IF off < OFF_M123 \/ off + count > OFF_END
          THEN [ ok |-> FALSE, map |-> map, frames |-> << >> ]
          ELSE [ ok |-> TRUE,
                 map |-> written,
                 frames |-> IF changed
                            THEN forward_power_limit_(srcs, n, written[OFF_M123 + 2 + 5],
                                                      written[OFF_M123 + 2 + 8] = 1, busy)
                            ELSE << >> ]

\* A faulty variant of write_sunspec_registers_ that forwards the limit and
\* the enable flag it finds in the register map before it stores the
\* written words.
write_sunspec_registers_stale(map, srcs, n, busy, start_reg, count, values) ==
  IF start_reg < SUNSPEC_BASE THEN [ ok |-> FALSE, map |-> map, frames |-> << >> ]
  ELSE LET off == start_reg - SUNSPEC_BASE
           lim_off == OFF_M123 + 2 + 5
           ena_off == OFF_M123 + 2 + 8
           written == [i \in DOMAIN map |->
                         IF i >= off /\ i < off + count THEN values[i - off + 1] ELSE map[i]]
           changed == \E r \in off..(off + count - 1) : r = lim_off \/ r = ena_off
       IN IF off < OFF_M123 + 2 \/ off + count > OFF_END
          THEN [ ok |-> FALSE, map |-> map, frames |-> << >> ]
          ELSE [ ok |-> TRUE,
                 map |-> written,
                 frames |-> IF changed
                            THEN forward_power_limit_(srcs, n, map[lim_off],
                                                      map[ena_off] = 1, busy)
                            ELSE << >> ]

\* A faulty variant of write_sunspec_registers_ whose writable area runs to
\* the end of the register map (TOTAL_REGS instead of OFF_END).
write_sunspec_registers_pastEnd(map, srcs, n, busy, start_reg, count, values) ==
  IF start_reg < SUNSPEC_BASE THEN [ ok |-> FALSE, map |-> map, frames |-> << >> ]
  ELSE LET off == start_reg - SUNSPEC_BASE
           written == [i \in DOMAIN map |->
                         IF i >= off /\ i < off + count THEN values[i - off + 1] ELSE map[i]]
           changed == \E r \in off..(off + count - 1) :
                         r = OFF_M123 + 2 + 5 \/ r = OFF_M123 + 2 + 8
       IN IF off < OFF_M123 + 2 \/ off + count > TOTAL_REGS
          THEN [ ok |-> FALSE, map |-> map, frames |-> << >> ]
          ELSE [ ok |-> TRUE,
                 map |-> written,
                 frames |-> IF changed
                            THEN forward_power_limit_(srcs, n, written[OFF_M123 + 2 + 5],
                                                      written[OFF_M123 + 2 + 8] = 1, busy)
                            ELSE << >> ]

\* A faulty variant of write_sunspec_registers_ that forwards the power limit
\* after every accepted write, without the search for lim_off and ena_off.
write_sunspec_registers_always(map, srcs, n, busy, start_reg, count, values) ==
  IF start_reg < SUNSPEC_BASE THEN [ ok |-> FALSE, map |-> map, frames |-> << >> ]
  ELSE LET off == start_reg - SUNSPEC_BASE
           lim_off == OFF_M123 + 2 + 5
           ena_off == OFF_M123 + 2 + 8
           written == [i \in DOMAIN map |->
                         IF i >= off /\ i < off + count THEN values[i - off + 1] ELSE map[i]]
           pct == written[lim_off]
           ena == written[ena_off]
       IN IF off < OFF_M123 + 2 \/ off + count > OFF_END
          THEN [ ok |-> FALSE, map |-> map, frames |-> << >> ]
          ELSE [ ok |-> TRUE,
                 map |-> written,
                 frames |-> forward_power_limit_(srcs, n, pct, ena = 1, busy) ]

\* A faulty variant of write_sunspec_registers_ that stores word by word and
\* tests each word's offset on its own: of a range that only partly lies in
\* the writable slice the part inside is stored before the write is refused.
write_sunspec_registers_partial(map, srcs, n, busy, start_reg, count, values) ==
  IF start_reg < SUNSPEC_BASE THEN [ ok |-> FALSE, map |-> map, frames |-> << >> ]
  ELSE LET off == start_reg - SUNSPEC_BASE
           lim_off == OFF_M123 + 2 + 5
           ena_off == OFF_M123 + 2 + 8
           written == [i \in DOMAIN map |->
                         IF i >= off /\ i < off + count /\ i >= OFF_M123 + 2 /\ i < OFF_END
                         THEN values[i - off + 1] ELSE map[i]]
           changed == \E r \in off..(off + count - 1) : r = lim_off \/ r = ena_off
           pct == written[lim_off]
           ena == written[ena_off]
       IN IF off < OFF_M123 + 2 \/ off + count > OFF_END
          THEN [ ok |-> FALSE, map |-> written, frames |-> << >> ]
          ELSE [ ok |-> TRUE,
                 map |-> written,
                 frames |-> IF changed
                            THEN forward_power_limit_(srcs, n, pct, ena = 1, busy)
                            ELSE << >> ]

\* bool SunSpecProxy::write_sunspec_registers_(start_reg, count, values):
\* the return value, the register map left, and the frames
\* forward_power_limit_ put on the bus.  values is the 1-based sequence of
\* the words to write.
write_sunspec_registers_(map, srcs, n, busy, start_reg, count, values) ==
  IF start_reg < SUNSPEC_BASE THEN [ ok |-> FALSE, map |-> map, frames |-> << >> ]
  ELSE LET off == start_reg - SUNSPEC_BASE
           lim_off == OFF_M123 + 2 + 5
           ena_off == OFF_M123 + 2 + 8
           written == [i \in DOMAIN map |->
                         IF i >= off /\ i < off + count THEN values[i - off + 1] ELSE map[i]]
           changed == \E r \in off..(off + count - 1) : r = lim_off \/ r = ena_off
           pct == written[lim_off]
           ena == written[ena_off]
       IN IF off < OFF_M123 + 2 \/ off + count > OFF_END
          THEN [ ok |-> FALSE, map |-> map, frames |-> << >> ]
          ELSE [ ok |-> TRUE,
                 map |-> written,
                 frames |-> IF changed
                            THEN forward_power_limit_(srcs, n, pct, ena = 1, busy)
                            ELSE << >> ]

(***************************************************************************)
(* Modbus/TCP request processing                                           *)
(***************************************************************************)
\* void SunSpecProxy::send_tcp_response_(client_fd, txn_id, unit_id, fc, data,
\* data_len): the bytes handed to send()
send_tcp_response_(txn_id, unit_id, fc, data) ==
  put_be16(txn_id) \o put_be16(0) \o put_be16(1 + 1 + Len(data))
  \o << unit_id, fc >> \o data

\* fc | 0x80 on a byte
Or80(fc) == IF fc >= 128 THEN fc ELSE fc + 128

\* A faulty variant of send_tcp_error_ that answers with the function code
\* of the request as it is.
send_tcp_error_plainFc(txn_id, unit_id, fc, err) ==
  send_tcp_response_(txn_id, unit_id, fc, << err >>)

\* void SunSpecProxy::send_tcp_error_(client_fd, txn_id, unit_id, fc, err)
send_tcp_error_(txn_id, unit_id, fc, err) ==
  send_tcp_response_(txn_id, unit_id, Or80(fc), << err >>)

\* the bytes put_be16 writes for each word of a sequence of words
WordsBE(ws) ==
  [k \in 1..(2 * Len(ws)) |-> put_be16(ws[(k + 1) \div 2])[2 - (k % 2)]]

\* What process_tcp_request_ leaves when it returns before counting the
\* request, and after counting it.
TcpDropped(map) ==
  [ counted |-> FALSE, errors |-> 0, sent |-> << >>, map |-> map,
    frames |-> << >>, copied |-> FALSE ]
TcpResult(errors, sent, map, frames, copied) ==
  [ counted |-> TRUE, errors |-> errors, sent |-> sent, map |-> map,
    frames |-> frames, copied |-> copied ]

\* A faulty variant of ReadHoldingCase that reads the registers before it
\* looks at the count.
ReadHoldingCase_readFirst(len, txn_id, unit_id, fc, count, rd, map) ==
  IF len < 12 THEN TcpResult(0, << >>, map, << >>, FALSE)
  ELSE IF ~rd.ok
  THEN TcpResult(1, << send_tcp_error_(txn_id, unit_id, fc, 2) >>, map, << >>, rd.copied)
  ELSE IF count > 125
  THEN TcpResult(1, << send_tcp_error_(txn_id, unit_id, fc, 3) >>, map, << >>, rd.copied)
  ELSE TcpResult(0,
         << send_tcp_response_(txn_id, unit_id, fc,
                               << (count * 2) % U8 >> \o WordsBE(rd.out)) >>,
         map, << >>, rd.copied)

\* process_tcp_request_, case 0x03 (Read Holding Registers): rd is what
\* read_sunspec_registers_(start, count, values) returns.
ReadHoldingCase(len, txn_id, unit_id, fc, count, rd, map) ==
  IF len < 12 THEN TcpResult(0, << >>, map, << >>, FALSE)
  ELSE IF count > 125
  THEN TcpResult(1, << send_tcp_error_(txn_id, unit_id, fc, 3) >>, map, << >>, FALSE)
  ELSE IF ~rd.ok
  THEN TcpResult(1, << send_tcp_error_(txn_id, unit_id, fc, 2) >>, map, << >>, rd.copied)
  ELSE TcpResult(0,
         << send_tcp_response_(txn_id, unit_id, fc,
                               << (count * 2) % U8 >> \o WordsBE(rd.out)) >>,
         map, << >>, rd.copied)

\* process_tcp_request_, case 0x06 (Write Single Register): w is what
\* write_sunspec_registers_(reg, 1, &val) returns.
WriteSingleCase(len, txn_id, unit_id, fc, reg, val, w, map) ==
  IF len < 12 THEN TcpResult(0, << >>, map, << >>, FALSE)
  ELSE IF ~w.ok
  THEN TcpResult(1, << send_tcp_error_(txn_id, unit_id, fc, 2) >>, w.map, w.frames, FALSE)
  ELSE TcpResult(0,
         << send_tcp_response_(txn_id, unit_id, fc, put_be16(reg) \o put_be16(val)) >>,
         w.map, w.frames, FALSE)

\* process_tcp_request_, case 0x10 (Write Multiple Registers): w is what
\* write_sunspec_registers_(reg, cnt, vals) returns.
WriteMultipleCase(len, txn_id, unit_id, fc, reg, cnt, w, map) ==
  IF len < 13 THEN TcpResult(0, << >>, map, << >>, FALSE)
  ELSE IF len < 13 + cnt * 2 \/ cnt > 100
  THEN TcpResult(1, << send_tcp_error_(txn_id, unit_id, fc, 3) >>, map, << >>, FALSE)
  ELSE IF ~w.ok
  THEN TcpResult(1, << send_tcp_error_(txn_id, unit_id, fc, 2) >>, w.map, w.frames, FALSE)
  ELSE TcpResult(0,
         << send_tcp_response_(txn_id, unit_id, fc, put_be16(reg) \o put_be16(cnt)) >>,
         w.map, w.frames, FALSE)

\* A faulty variant of UnitAccepted that also serves the broadcast unit 0.
UnitAcceptedOrBroadcast(unit_id, unit) == unit_id = unit \/ unit_id = 0

\* the negation of the test `unit_id != agg_config_.unit_id`
UnitAccepted(unit_id, unit) == unit_id = unit

\* void SunSpecProxy::process_tcp_request_(int client_fd, uint8_t *buf, int len)
\* on the register map `map`: whether the request was counted
\* (tcp_request_count_++, last_tcp_activity_ms_), the increment of
\* tcp_error_count_, the frames sent to the client, the register map left,
\* the frames put on the RTU bus, and whether the register map was copied
\* out by read_sunspec_registers_.
process_tcp_request_(buf, map, unit, srcs, n, busy) ==
  LET len == Len(buf)
      txn_id == be16(buf, 0)
      unit_id == At(buf, 6)
      fc == At(buf, 7)
      a == be16(buf, 8)
      b == be16(buf, 10)
  IN IF len < 8 THEN TcpDropped(map)
     ELSE IF be16(buf, 2) # 0 THEN TcpDropped(map)
     ELSE IF ~UnitAccepted(unit_id, unit) THEN TcpResult(0, << >>, map, << >>, FALSE)
     ELSE IF fc = 3
       THEN ReadHoldingCase(len, txn_id, unit_id, fc, b,
                            read_sunspec_registers_(map, a, b), map)
     ELSE IF fc = 6
       THEN WriteSingleCase(len, txn_id, unit_id, fc, a, b,
              write_sunspec_registers_(map, srcs, n, busy, a, 1, << b >>), map)
     ELSE IF fc = 16
       THEN WriteMultipleCase(len, txn_id, unit_id, fc, a, b,
              write_sunspec_registers_(map, srcs, n, busy, a, b,
                                       [i \in 1..b |-> be16(buf, 13 + (i - 1) * 2)]),
              map)
     ELSE TcpResult(1, << send_tcp_error_(txn_id, unit_id, fc, 1) >>, map, << >>, FALSE)

(***************************************************************************)
(* RTU responses                                                           *)
(***************************************************************************)
\* What the UART holds when poll_rtu_sources_ reads it: the number n of
\* bytes available, whether the CRC trailer of those n bytes matches
\* (expected == received in read_rtu_response_), resp[1], resp[2], and the
\* words be16(&resp[3 + 2*i]) of the payload.
RtuRx(n, crc_ok, func, b2, regs) ==
  [ n |-> n, crc_ok |-> crc_ok, func |-> func, b2 |-> b2, regs |-> regs ]

\* int SunSpecProxy::read_rtu_response_(uint8_t *buf, int max_len)
read_rtu_response_(rx) ==
  LET n == Min(rx.n, 256)
  IN IF n < 5 THEN 0 ELSE IF ~rx.crc_ok THEN -1 ELSE n

\* drop the trailing NUL and space characters of a character array
RECURSIVE TrimTrailing(_)
TrimTrailing(cs) ==
  IF cs = << >> THEN cs
  ELSE IF cs[Len(cs)] = 0 \/ cs[Len(cs)] = 32 THEN TrimTrailing(SubSeq(cs, 1, Len(cs) - 1))
  ELSE cs

\* the C string held by a character array: the characters before the first NUL
RECURSIVE CStr(_)
CStr(cs) ==
  IF cs = << >> \/ cs[1] = 0 THEN << >> ELSE << cs[1] >> \o CStr(Tail(cs))

\* the 12 characters of registers 0x01..0x06, trimmed (sn[] in poll_rtu_sources_)
SerialOf(reg_data) ==
  LET chars == [k \in 1..12 |->
                  LET w == reg_data[HM_SN_START + ((k - 1) \div 2)]
                  IN IF k % 2 = 1 THEN (w \div 256) % U8 ELSE w % U8]
  IN CStr(TrimTrailing(chars))

\* The source record after the "Parse Hoymiles data registers" block of
\* poll_rtu_sources_ (reg_count >= 34), before the aggregator runs.
ParseLiveData(s, reg_data, t) ==
  LET sn == SerialOf(reg_data)
      s1 == IF s.initial_model1_read THEN s
            ELSE [s EXCEPT !.serial_from_dtu = IF sn # << >> THEN sn ELSE @,
                           !.serial_number = IF sn # << >> /\ @ = << >> THEN sn ELSE @,
                           !.initial_model1_read = TRUE]
      voltage_v == F(reg_data[HM_GRID_VOLTAGE])
      pv_power_w == F(reg_data[HM_PV_POWER])
      today_wh == << reg_data[HM_TODAY_PROD_H], reg_data[HM_TODAY_PROD_L] >>
      total_wh == << reg_data[HM_TOTAL_PROD_H], reg_data[HM_TOTAL_PROD_L] >>
  IN [s1 EXCEPT
        !.pv_voltage_v = F(reg_data[HM_PV_VOLTAGE]),
        !.pv_current_a = FDivI(F(reg_data[HM_PV_CURRENT]), 2),
        !.voltage_v = voltage_v,
        !.frequency_hz = FDivI(F(reg_data[HM_GRID_FREQ]), 100),
        !.pv_power_w = pv_power_w,
        !.power_w = pv_power_w,
        !.today_energy_wh = F(U32Val(today_wh)),
        !.energy_kwh = FDivI(F(U32Val(total_wh)), 1000),
        !.temperature_c = F(ToS16(reg_data[HM_TEMPERATURE])),
        !.operating_status = reg_data[HM_OPERATING_STATUS],
        !.alarm_code = reg_data[HM_ALARM_CODE],
        !.link_status = reg_data[HM_LINK_STATUS] % U8,
        !.producing = (pv_power_w > 0),
        !.current_a = IF voltage_v > 0 THEN FDiv(pv_power_w, voltage_v) ELSE @,
        !.data_valid = TRUE,
        !.last_poll_ms = t,
        !.poll_success_count = @ + 1]

\* bool SunSpecProxy::send_rtu_request_(address, function, reg_start, reg_count):
\* the frame written (the UART input is drained first); it returns true.
send_rtu_request_(address, function, reg_start, reg_count, busy) ==
  RtuFrame(address, function, reg_start, reg_count, busy)

(***************************************************************************)
(* CRC-16 and the bytes of an RTU frame                                    *)
(***************************************************************************)
\* a ^ b on the low `bits` bits
RECURSIVE XorBits(_, _, _)
XorBits(a, b, bits) ==
  IF bits = 0 THEN 0
  ELSE ((a + b) % 2) + 2 * XorBits(a \div 2, b \div 2, bits - 1)

\* A faulty variant of CrcShift without the polynomial.
CrcShift_noPoly(crc) == crc \div 2

\* one pass of the inner loop of calc_crc16_:
\* if (crc & 0x0001) crc = (crc >> 1) ^ 0xA001; else crc >>= 1;
CrcShift(crc) ==
  IF crc % 2 = 1 THEN XorBits(crc \div 2, 40961, 16) ELSE crc \div 2

\* the value of a one-element set
Only(S) == CHOOSE x \in S : TRUE

\* j passes of the inner loop of calc_crc16_
RECURSIVE CrcBits(_, _)
CrcBits(crc, j) ==
  IF j = 0 THEN crc ELSE Only({ CrcShift(c) : c \in { CrcBits(crc, j - 1) } })

\* one pass of the outer loop of calc_crc16_: crc ^= data[i], then the
\* inner loop for j = 0..7
CrcByte(crc, byte) == Only({ CrcBits(c, 8) : c \in { XorBits(crc, byte, 16) } })

\* the outer loop of calc_crc16_ over data[lo..hi], in index order, from
\* the value crc (the range is halved to keep the evaluation shallow)
RECURSIVE CrcRange(_, _, _, _)
CrcRange(crc, data, lo, hi) ==
  IF lo > hi THEN crc
  ELSE IF lo = hi THEN CrcByte(crc, data[lo])
  ELSE Only({ CrcRange(c, data, ((lo + hi) \div 2) + 1, hi) :
              c \in { CrcRange(crc, data, lo, (lo + hi) \div 2) } })

\* uint16_t SunSpecProxy::calc_crc16_(const uint8_t *data, uint16_t len):
\* uint16_t crc = 0xFFFF; for (i = 0; i < len; i++) ...; return crc;
calc_crc16_(data, len) == CrcRange(65535, data, 1, len)

\* the trailer send_rtu_request_ appends: frame[6] = crc & 0xFF,
\* frame[7] = (crc >> 8) & 0xFF
CrcTrailer(crc) == << crc % U8, (crc \div U8) % U8 >>
WithCrc(pdu) == pdu \o CrcTrailer(calc_crc16_(pdu, Len(pdu)))

\* the 8 bytes send_rtu_request_ hands to write_array() for a frame
FrameBytes(f) == WithCrc(<< f.addr, f.fc >> \o put_be16(f.reg) \o put_be16(f.val))

\* read_rtu_response_ on the n bytes buf:
\* expected = calc_crc16_(buf, n - 2), received = buf[n-2] | buf[n-1] << 8
CrcMatches(buf) ==
  calc_crc16_(buf, Len(buf) - 2) = buf[Len(buf) - 1] + U8 * buf[Len(buf)]
ReadBytes(buf) ==
  read_rtu_response_(RtuRx(Len(buf), CrcMatches(buf), buf[2], buf[3], << >>))

(***************************************************************************)
(* Environment: what the TCP clients and the DTU send                      *)
(***************************************************************************)
\* Modbus/TCP requests as the bytes recv() returns
MbapRead(txn, unit, start, count) ==
  put_be16(txn) \o put_be16(0) \o put_be16(6) \o << unit, 3 >>
  \o put_be16(start) \o put_be16(count)
MbapWriteSingle(txn, unit, reg, val) ==
  put_be16(txn) \o put_be16(0) \o put_be16(6) \o << unit, 6 >>
  \o put_be16(reg) \o put_be16(val)
MbapWriteMultiple(txn, unit, reg, vals) ==
  put_be16(txn) \o put_be16(0) \o put_be16(7 + 2 * Len(vals)) \o << unit, 16 >>
  \o put_be16(reg) \o put_be16(Len(vals)) \o << (2 * Len(vals)) % U8 >> \o WordsBE(vals)
\* a Write Multiple Registers request whose count, byte-count field and
\* data bytes are given one by one
MbapWriteMultipleRaw(txn, unit, reg, cnt, byte_count, data) ==
  put_be16(txn) \o put_be16(0) \o put_be16(7 + Len(data)) \o << unit, 16 >>
  \o put_be16(reg) \o put_be16(cnt) \o << byte_count >> \o data
MbapOther(txn, unit, fc) ==
  put_be16(txn) \o put_be16(0) \o put_be16(2) \o << unit, fc >>

\* A Hoymiles port block of 40 registers (sunspec_proxy.h, HM_* offsets)
HmBlock(serial6, pv_v, pv_i2, grid_v, freq, pv_p, today, total, temp, status, alarm, link) ==
  [k \in 0..(HM_PORT_REGS - 1) |->
     IF k >= HM_SN_START /\ k < HM_SN_START + 6 THEN serial6[k - HM_SN_START + 1]
     ELSE IF k = HM_PV_VOLTAGE THEN pv_v
     ELSE IF k = HM_PV_CURRENT THEN pv_i2
     ELSE IF k = HM_GRID_VOLTAGE THEN grid_v
     ELSE IF k = HM_GRID_FREQ THEN freq
     ELSE IF k = HM_PV_POWER THEN pv_p
     ELSE IF k = HM_TODAY_PROD_H THEN today \div U16
     ELSE IF k = HM_TODAY_PROD_L THEN today % U16
     ELSE IF k = HM_TOTAL_PROD_H THEN total \div U16
     ELSE IF k = HM_TOTAL_PROD_L THEN total % U16
     ELSE IF k = HM_TEMPERATURE THEN ToU16(temp)
     ELSE IF k = HM_OPERATING_STATUS THEN status
     ELSE IF k = HM_ALARM_CODE THEN alarm
     ELSE IF k = HM_LINK_STATUS THEN link
     ELSE 0]

\* serial "116184732051" as six registers, and "1161" followed by spaces
SerialRegsA == << 12593, 13873, 14388, 14131, 12848, 13617 >>
SerialRegsB == << 12593, 13873, 8224, 8224, 0, 0 >>

\* a producing inverter (650 W, 230 V, 49.99 Hz, 1234 Wh today, 12340 Wh
\* lifetime, 42 C) and an idle one (0 W, -3 C)
BlockProducing == HmBlock(SerialRegsA, 35, 40, 230, 4999, 650, 1234, 12340, 42, 3, 0, 1)
BlockIdle == HmBlock(SerialRegsB, 0, 0, 231, 5001, 0, 0, 70000, -3, 0, 0, 257)
Blocks == { BlockProducing, BlockIdle }

\* nothing, a partial frame, a complete FC 0x03 frame of 40 registers with a
\* good or bad CRC, a FC 0x03 frame of 33 registers, an exception frame, and
\* the echo of a write (FC 0x06)
RxNothing == RtuRx(0, TRUE, 0, 0, << >>)
RxPartial == RtuRx(4, TRUE, 3, 80, << >>)
RxGood(block) == RtuRx(5 + 2 * HM_PORT_REGS, TRUE, 3, 2 * HM_PORT_REGS, block)
RxBadCrc(block) == RtuRx(5 + 2 * HM_PORT_REGS, FALSE, 3, 2 * HM_PORT_REGS, block)
RxShort(block) == RtuRx(5 + 66, TRUE, 3, 66, [k \in 0..32 |-> block[k]])
RxException == RtuRx(5, TRUE, 131, 2, << >>)
RxUnexpected == RtuRx(8, TRUE, 6, 192, << >>)
RtuInputs ==
  { RxNothing, RxPartial, RxException, RxUnexpected,
    RxBadCrc(BlockProducing), RxShort(BlockProducing) }
  \cup { RxGood(b) : b \in Blocks }

\* time between two iterations of loop(), in ms
LoopGaps == { 1000, 3001 }
\* millis() at the first iteration of loop()
FirstLoopMs == { 5000 }
\* the value an out-of-range float-to-integer conversion may yield
UbWords == { 0, 65535 }

(***************************************************************************)
(* State                                                                   *)
(***************************************************************************)
VARIABLES
  agg_config_,            \* AggregatedConfig
  num_sources_,           \* int
  sources_,               \* RtuSource[0 .. num_sources_-1]
  register_map_,          \* uint16_t[TOTAL_REGS]
  aggv,                   \* agg_power_w_, agg_current_a_, agg_voltage_v_, agg_frequency_hz_, agg_energy_kwh_
  server_fd_,             \* listening socket, -1 when setup_tcp_server_ failed
  client_fds_,            \* int[MAX_TCP_CLIENTS], -1 = free
  tcp_request_count_,
  tcp_error_count_,
  last_tcp_activity_ms_,
  current_poll_source_,
  last_poll_time_,
  rtu_busy_,
  rtu_request_time_,
  last_sensor_publish_ms_,
  published,              \* what the sensors last received (per source, aggregate, status texts)
  now,                    \* millis()
  pc,                     \* position inside loop(): "accept", "recv", "poll", "publish"
  slot,                   \* client slot the recv loop of handle_tcp_clients_ is at
  tick,                   \* iterations of loop() completed
  conns,                  \* connections opened by clients so far
  nreq,                   \* buffers received from clients so far
  tcp_in,                 \* the buffer received in the last step (<< >> if none)
  tcp_out,                \* the frames sent to the client in the last step
  tcp_copied,             \* whether the last step copied registers out of the register map
  tcp_recv,               \* what recv() returned in the last step: "none" if not called, "data", "closed", "again", "error"
  rtu_tx,                 \* the frames written to the RS-485 bus in the last step
  rtu_log,                \* every frame written to the RS-485 bus since setup()
  rtu_in,                 \* what the last step read from the UART
  poll_target,            \* index of the source addressed by the last read request sent
  poll_event,             \* how the last step left the poller
  wire,                   \* a frame on the RS-485 line: its PDU, its bytes, whether a bit was flipped
  wire_read               \* << what read_rtu_response_ returned on it >>, << >> before it is read

vars == << agg_config_, num_sources_, sources_, register_map_, aggv, server_fd_,
           client_fds_, tcp_request_count_, tcp_error_count_, last_tcp_activity_ms_,
           current_poll_source_, last_poll_time_, rtu_busy_, rtu_request_time_,
           last_sensor_publish_ms_, published, now, pc, slot, tick, conns, nreq,
           tcp_in, tcp_out, tcp_copied, tcp_recv, rtu_tx, rtu_log, rtu_in, poll_target,
           poll_event, wire, wire_read >>

cfgVars == << agg_config_, num_sources_, server_fd_ >>
tcpVars == << client_fds_, tcp_request_count_, tcp_error_count_, last_tcp_activity_ms_ >>
pollVars == << current_poll_source_, last_poll_time_, rtu_busy_, rtu_request_time_, poll_target >>
wireVars == << wire, wire_read >>
progVars ==
  << cfgVars, sources_, register_map_, aggv, tcpVars, pollVars,
     last_sensor_publish_ms_, published, now, pc, slot, tick, conns, nreq,
     tcp_in, tcp_out, tcp_copied, tcp_recv, rtu_tx, rtu_log, rtu_in, poll_event >>

NoRx == RtuRx(0, TRUE, 0, 0, << >>)
NoWire == [ pdu |-> << >>, bytes |-> << >>, flipped |-> FALSE ]

\* void SunSpecProxy::setup_tcp_server_(): server_fd_ when it returns.
\* socket() fails with a negative descriptor, kept in server_fd_; after a
\* failed bind() or listen() the socket is closed and server_fd_ = -1;
\* otherwise the listening socket (fd 3).
SetupOutcomes == { "socket", "bind", "listen", "listening" }
setup_tcp_server_(outcome) == IF outcome = "listening" THEN 3 ELSE -1

\* The state after construction and setup(): the configuration, the static
\* register map, no client, the poller idle.  setup_tcp_server_ either
\* leaves a listening socket (fd 3) or -1.  times is what millis() may
\* return in the first iteration of loop().
\* calls is how often the configuration calls add_rtu_source.
InitFor(calls, times) ==
  \E c \in calls, layout \in Layouts, t0 \in times,
     sfd \in { setup_tcp_server_(o) : o \in SetupOutcomes } :
   \E n \in { NumSourcesAfter(c) } :
    /\ num_sources_ = n
    /\ agg_config_ = ConfigAgg(n, layout)
    /\ sources_ = ConfigSources(n, layout)
    /\ register_map_ = build_static_registers_(ConfigAgg(n, layout))
    /\ aggv = [ power_w |-> 0, current_a |-> 0, voltage_v |-> 0,
                frequency_hz |-> 0, energy_kwh |-> 0 ]
    /\ server_fd_ = sfd
    /\ client_fds_ = [i \in 0..(MAX_TCP_CLIENTS - 1) |-> -1]
    /\ tcp_request_count_ = 0
    /\ tcp_error_count_ = 0
    /\ last_tcp_activity_ms_ = U32Of(0)
    /\ current_poll_source_ = 0
    /\ last_poll_time_ = U32Of(0)
    /\ rtu_busy_ = FALSE
    /\ rtu_request_time_ = U32Of(0)
    /\ last_sensor_publish_ms_ = U32Of(0)
    /\ published = [ sources |-> << >>, aggregate |-> << >>, tcp |-> << >>,
                     status |-> [i \in 0..(n - 1) |-> << "", 0 >>] ]
    /\ now = t0
    /\ pc = "accept"
    /\ slot = 0
    /\ tick = 0
    /\ conns = 0
    /\ nreq = 0
    /\ tcp_in = << >>
    /\ tcp_out = << >>
    /\ tcp_copied = FALSE
    /\ tcp_recv = "none"
    /\ rtu_tx = << >>
    /\ rtu_log = << >>
    /\ rtu_in = NoRx
    /\ poll_target = -1
    /\ poll_event = "none"
    /\ wire = NoWire
    /\ wire_read = << >>

InitAt(times) == InitFor(0..MaxSources, times)

Init == InitAt({ U32Of(t) : t \in FirstLoopMs })

(***************************************************************************)
(* handle_tcp_clients_                                                     *)
(***************************************************************************)
\* index of the first free slot of client_fds_, MAX_TCP_CLIENTS if none
FirstFree(fds) ==
  IF \E i \in DOMAIN fds : fds[i] < 0
  THEN CHOOSE i \in DOMAIN fds : fds[i] < 0 /\ \A j \in DOMAIN fds : fds[j] < 0 => i <= j
  ELSE MAX_TCP_CLIENTS

\* index of the first active slot at or after i, MAX_TCP_CLIENTS if none
\* (the recv loop skips the free slots)
NextActive(fds, i) ==
  IF \E k \in DOMAIN fds : k >= i /\ fds[k] >= 0
  THEN CHOOSE k \in DOMAIN fds :
         k >= i /\ fds[k] >= 0 /\ \A j \in DOMAIN fds : (j >= i /\ fds[j] >= 0) => k <= j
  ELSE MAX_TCP_CLIENTS

\* A faulty variant of PlaceClient that gives slot 0 to the new connection
\* when no slot is free.
PlaceClient_displace(fds, nfd) ==
  IF FirstFree(fds) < MAX_TCP_CLIENTS THEN [fds EXCEPT ![FirstFree(fds)] = nfd]
  ELSE [fds EXCEPT ![0] = nfd]

\* client_fds_ after the accept() part of handle_tcp_clients_ when accept()
\* returns the descriptor nfd: placed in the first free slot, or closed
PlaceClient(fds, nfd) ==
  IF FirstFree(fds) < MAX_TCP_CLIENTS THEN [fds EXCEPT ![FirstFree(fds)] = nfd] ELSE fds

\* A faulty variant of Listening that takes the server socket for open
\* whatever setup left.
Listening_always(fd) == TRUE

\* the negation of the test `server_fd_ < 0` handle_tcp_clients_ returns on
Listening(fd) == fd >= 0

\* handle_tcp_clients_, up to the recv loop: return when there is no
\* listening socket; otherwise accept() once.  At most max_ticks iterations
\* of loop() and max_connects connections are followed.
TcpAcceptWithin(max_ticks, max_connects) ==
  /\ pc = "accept"
  /\ tick < max_ticks
  /\ \E pending \in BOOLEAN :
       /\ pending => (Listening(server_fd_) /\ conns < max_connects)
       /\ LET fds == IF pending THEN PlaceClient(client_fds_, 10 + conns) ELSE client_fds_
              first == NextActive(fds, 0)
          IN /\ client_fds_' = fds
             /\ conns' = IF pending THEN conns + 1 ELSE conns
             /\ IF Listening(server_fd_) /\ first < MAX_TCP_CLIENTS
                THEN pc' = "recv" /\ slot' = first
                ELSE pc' = "poll" /\ slot' = 0
  /\ tcp_in' = << >>
  /\ tcp_out' = << >>
  /\ tcp_copied' = FALSE
  /\ tcp_recv' = "none"
  /\ rtu_tx' = << >>
  /\ rtu_in' = NoRx
  /\ poll_event' = "none"
  /\ UNCHANGED << cfgVars, wireVars, sources_, register_map_, aggv, tcp_request_count_,
                  tcp_error_count_, last_tcp_activity_ms_, pollVars,
                  last_sensor_publish_ms_, published, now, tick, nreq, rtu_log >>

TcpAccept == TcpAcceptWithin(MaxTicks, MaxConnects)

\* where the recv loop goes after slot i
AfterSlot(fds, i) ==
  LET nxt == NextActive(fds, i + 1)
  IN IF nxt < MAX_TCP_CLIENTS THEN pc' = "recv" /\ slot' = nxt
     ELSE pc' = "poll" /\ slot' = 0

\* A faulty variant of RecvEffect that also drops the client when recv()
\* has nothing to read.
RecvEffect_dropIdle(fds, i, r) == [fds EXCEPT ![i] = -1]

\* client_fds_ after recv() on slot i returned 0 ("closed"), failed with
\* EAGAIN or EWOULDBLOCK ("again"), or failed with another errno ("error"):
\* close(client_fds_[i]); client_fds_[i] = -1 in the first and last case
RecvEffect(fds, i, r) == IF r = "again" THEN fds ELSE [fds EXCEPT ![i] = -1]

\* One iteration of the recv loop of handle_tcp_clients_ on the active slot
\* `slot`: recv() returns 0 (closed), fails with EAGAIN/EWOULDBLOCK, or
\* fails with another errno.
TcpRecvNoData ==
  /\ pc = "recv"
  /\ \E r \in { "closed", "again", "error" } :
       /\ client_fds_' = RecvEffect(client_fds_, slot, r)
       /\ tcp_recv' = r
       /\ AfterSlot(client_fds_', slot)
  /\ tcp_in' = << >>
  /\ tcp_out' = << >>
  /\ tcp_copied' = FALSE
  /\ rtu_tx' = << >>
  /\ rtu_in' = NoRx
  /\ poll_event' = "none"
  /\ UNCHANGED << cfgVars, wireVars, sources_, register_map_, aggv, tcp_request_count_,
                  tcp_error_count_, last_tcp_activity_ms_, pollVars,
                  last_sensor_publish_ms_, published, now, tick, conns, nreq, rtu_log >>

\* One iteration of the recv loop on the active slot `slot` when recv()
\* returns the n > 0 bytes buf: process_tcp_request_(client_fds_[i], buf, n).
\* Every frame forward_power_limit_ writes is followed by delay(100).
TcpRecvData(requests) ==
  /\ pc = "recv"
  /\ nreq < MaxRequests
  /\ \E buf \in requests :
       \E res \in { process_tcp_request_(buf, register_map_, agg_config_.unit_id,
                                          sources_, num_sources_, rtu_busy_) } :
          /\ tcp_in' = buf
          /\ tcp_out' = res.sent
          /\ tcp_copied' = res.copied
          /\ tcp_recv' = "data"
          /\ rtu_tx' = res.frames
          /\ rtu_log' = rtu_log \o res.frames
          /\ register_map_' = res.map
          /\ tcp_request_count_' = IF res.counted THEN tcp_request_count_ + 1
                                   ELSE tcp_request_count_
          /\ last_tcp_activity_ms_' = IF res.counted THEN now ELSE last_tcp_activity_ms_
          /\ tcp_error_count_' = tcp_error_count_ + res.errors
          /\ now' = U32Add(now, 100 * Len(res.frames))
  /\ nreq' = nreq + 1
  /\ AfterSlot(client_fds_, slot)
  /\ rtu_in' = NoRx
  /\ poll_event' = "none"
  /\ UNCHANGED << cfgVars, wireVars, sources_, aggv, client_fds_, pollVars,
                  last_sensor_publish_ms_, published, tick, conns >>

(***************************************************************************)
(* poll_rtu_sources_                                                       *)
(***************************************************************************)
\* What one call of poll_rtu_sources_ leaves
PollResult(srcs, map, av, status, cur, lpt, busy, rqt, tx, target, event) ==
  [ sources |-> srcs, map |-> map, aggv |-> av, status |-> status,
    current_poll_source |-> cur, last_poll_time |-> lpt, rtu_busy |-> busy,
    rtu_request_time |-> rqt, tx |-> tx, target |-> target, event |-> event ]

PollUnchanged(event) ==
  PollResult(sources_, register_map_, aggv, published.status, current_poll_source_,
             last_poll_time_, rtu_busy_, rtu_request_time_, << >>, poll_target, event)

\* A faulty variant of Bump that counts nothing.
Bump_none(srcs, idx, counters) == srcs

\* A faulty variant of Bump that counts every failure twice.
Bump_twice(srcs, idx, counters) ==
  [srcs EXCEPT ![idx] =
     [f \in DOMAIN srcs[idx] |-> IF f \in counters THEN srcs[idx][f] + 2 ELSE srcs[idx][f]]]

\* sources_[idx].<counter>++ for each of the named counters
Bump(srcs, idx, counters) ==
  [srcs EXCEPT ![idx] =
     [f \in DOMAIN srcs[idx] |-> IF f \in counters THEN srcs[idx][f] + 1 ELSE srcs[idx][f]]]

\* The source a response is recorded on: sources_[current_poll_source_]
ResponseSource == current_poll_source_

\* What poll_rtu_sources_ leaves after a good response: agg is what
\* aggregate_and_update_registers_ returned.
PollSuccess(agg) ==
  PollResult(agg.srcs, agg.map, agg.aggv, agg.status, current_poll_source_,
             last_poll_time_, FALSE, rtu_request_time_, << >>, poll_target, "success")

\* A faulty variant of PollBusy that waits for the response without a
\* time limit.
PollBusy_noTimeout(rx, ub) ==
  LET n == read_rtu_response_(rx)
      idx == ResponseSource
      reg_count == rx.b2 \div 2
      reg_data == [i \in { k \in DOMAIN rx.regs : k < reg_count /\ k < 64 } |-> rx.regs[i]]
      parsed == [sources_ EXCEPT ![idx] = ParseLiveData(sources_[idx], reg_data, now)]
      Done(srcs, event) ==
        PollResult(srcs, register_map_, aggv, published.status, current_poll_source_,
                   last_poll_time_, FALSE, rtu_request_time_, << >>, poll_target, event)
  IN IF n > 0
     THEN IF n >= 5 /\ rx.func = 3
          THEN IF reg_count >= 34
               THEN PollSuccess(
                      aggregate_and_update_registers_(parsed, num_sources_, register_map_,
                        aggv, published.status, agg_config_.phases, now, ub))
               ELSE Done(Bump(sources_, idx, { "poll_fail_count" }), "short")
          ELSE IF n >= 2 /\ rx.func >= 128
               THEN Done(Bump(sources_, idx, { "poll_fail_count" }), "exception")
               ELSE Done(Bump(sources_, idx, { "poll_fail_count" }), "unexpected")
     ELSE IF n = -1
     THEN Done(Bump(sources_, idx, { "crc_error_count", "poll_fail_count" }), "crc")
     ELSE PollUnchanged("waiting")

\* A faulty variant of PollBusy that gives up as soon as rtu_timeout_ms_ has
\* elapsed (>= instead of >).
PollBusy_early(rx, ub) ==
  LET n == read_rtu_response_(rx)
      idx == ResponseSource
      reg_count == rx.b2 \div 2
      reg_data == [i \in { k \in DOMAIN rx.regs : k < reg_count /\ k < 64 } |-> rx.regs[i]]
      parsed == [sources_ EXCEPT ![idx] = ParseLiveData(sources_[idx], reg_data, now)]
      Done(srcs, event) ==
        PollResult(srcs, register_map_, aggv, published.status, current_poll_source_,
                   last_poll_time_, FALSE, rtu_request_time_, << >>, poll_target, event)
  IN IF n > 0
     THEN IF n >= 5 /\ rx.func = 3
          THEN IF reg_count >= 34
               THEN PollSuccess(
                      aggregate_and_update_registers_(parsed, num_sources_, register_map_,
                        aggv, published.status, agg_config_.phases, now, ub))
               ELSE Done(Bump(sources_, idx, { "poll_fail_count" }), "short")
          ELSE IF n >= 2 /\ rx.func >= 128
               THEN Done(Bump(sources_, idx, { "poll_fail_count" }), "exception")
               ELSE Done(Bump(sources_, idx, { "poll_fail_count" }), "unexpected")
     ELSE IF n = -1
     THEN Done(Bump(sources_, idx, { "crc_error_count", "poll_fail_count" }), "crc")
     ELSE IF U32Ge(U32Sub(now, rtu_request_time_), U32Of(rtu_timeout_ms_))
     THEN Done(Bump(sources_, idx, { "poll_timeout_count" }), "timeout")
     ELSE PollUnchanged("waiting")

\* poll_rtu_sources_ with rtu_busy_ set ("Handle pending RTU response"):
\* rx is what the UART holds.
PollBusy(rx, ub) ==
  LET n == read_rtu_response_(rx)
      idx == ResponseSource
      reg_count == rx.b2 \div 2
      reg_data == [i \in { k \in DOMAIN rx.regs : k < reg_count /\ k < 64 } |-> rx.regs[i]]
      parsed == [sources_ EXCEPT ![idx] = ParseLiveData(sources_[idx], reg_data, now)]
      Done(srcs, event) ==
        PollResult(srcs, register_map_, aggv, published.status, current_poll_source_,
                   last_poll_time_, FALSE, rtu_request_time_, << >>, poll_target, event)
  IN IF n > 0
     THEN IF n >= 5 /\ rx.func = 3
          THEN IF reg_count >= 34
               THEN PollSuccess(
                      aggregate_and_update_registers_(parsed, num_sources_, register_map_,
                        aggv, published.status, agg_config_.phases, now, ub))
               ELSE Done(Bump(sources_, idx, { "poll_fail_count" }), "short")
          ELSE IF n >= 2 /\ rx.func >= 128
               THEN Done(Bump(sources_, idx, { "poll_fail_count" }), "exception")
               ELSE Done(Bump(sources_, idx, { "poll_fail_count" }), "unexpected")
     ELSE IF n = -1
     THEN Done(Bump(sources_, idx, { "crc_error_count", "poll_fail_count" }), "crc")
     ELSE IF U32Gt(U32Sub(now, rtu_request_time_), U32Of(rtu_timeout_ms_))
     THEN Done(Bump(sources_, idx, { "poll_timeout_count" }), "timeout")
     ELSE PollUnchanged("waiting")

\* A faulty variant of PollIdle that does not move on to the next source
\* after sending.
PollIdle_noAdvance ==
  LET interval_per_source == poll_interval_ms_ \div num_sources_
      s == sources_[current_poll_source_]
      port_base == (HM_DATA_BASE + s.port_number * HM_PORT_STRIDE) % U16
  IN IF U32Lt(U32Sub(now, last_poll_time_), U32Of(interval_per_source))
     THEN PollUnchanged("idle")
     ELSE PollResult(sources_, register_map_, aggv, published.status,
                     current_poll_source_,
                     now, TRUE, now,
                     << send_rtu_request_(dtu_address_, 3, port_base, HM_PORT_REGS, rtu_busy_) >>,
                     current_poll_source_, "sent")

\* A faulty variant of PollIdle that does not note when it polled.
PollIdle_keepTime ==
  LET interval_per_source == poll_interval_ms_ \div num_sources_
      s == sources_[current_poll_source_]
      port_base == (HM_DATA_BASE + s.port_number * HM_PORT_STRIDE) % U16
  IN IF U32Lt(U32Sub(now, last_poll_time_), U32Of(interval_per_source))
     THEN PollUnchanged("idle")
     ELSE PollResult(sources_, register_map_, aggv, published.status,
                     (current_poll_source_ + 1) % num_sources_,
                     last_poll_time_, TRUE, now,
                     << send_rtu_request_(dtu_address_, 3, port_base, HM_PORT_REGS, rtu_busy_) >>,
                     current_poll_source_, "sent")

\* poll_rtu_sources_ with rtu_busy_ clear ("Time for next poll?")
PollIdle ==
  LET interval_per_source == poll_interval_ms_ \div num_sources_
      s == sources_[current_poll_source_]
      port_base == (HM_DATA_BASE + s.port_number * HM_PORT_STRIDE) % U16
  IN IF U32Lt(U32Sub(now, last_poll_time_), U32Of(interval_per_source))
     THEN PollUnchanged("idle")
     ELSE PollResult(sources_, register_map_, aggv, published.status,
                     (current_poll_source_ + 1) % num_sources_,
                     now, TRUE, now,
                     << send_rtu_request_(dtu_address_, 3, port_base, HM_PORT_REGS, rtu_busy_) >>,
                     current_poll_source_, "sent")

\* A faulty variant of poll_rtu_sources_ that goes on to "Time for next
\* poll?" when a request is outstanding and the UART holds nothing.
poll_rtu_sources_resend(rx, ub) ==
  IF num_sources_ = 0 THEN PollUnchanged("none")
  ELSE IF rtu_busy_ /\ read_rtu_response_(rx) # 0 THEN PollBusy(rx, ub)
  ELSE PollIdle

\* void SunSpecProxy::poll_rtu_sources_()
poll_rtu_sources_(rx, ub) ==
  IF num_sources_ = 0 THEN PollUnchanged("none")
  ELSE IF rtu_busy_ THEN PollBusy(rx, ub)
  ELSE PollIdle

\* loop(): the call of poll_rtu_sources_().  The UART holds something only
\* while a request is outstanding; send_rtu_request_ drains the rest.
\* inputs is what the DTU may have answered.
PollWith(inputs) ==
  /\ pc = "poll"
  /\ \E rx \in (IF num_sources_ > 0 /\ rtu_busy_ THEN inputs ELSE { NoRx }),
        ub \in UbWords :
       \E res \in { poll_rtu_sources_(rx, ub) } :
          /\ sources_' = res.sources
          /\ register_map_' = res.map
          /\ aggv' = res.aggv
          /\ published' = [published EXCEPT !.status = res.status]
          /\ current_poll_source_' = res.current_poll_source
          /\ last_poll_time_' = res.last_poll_time
          /\ rtu_busy_' = res.rtu_busy
          /\ rtu_request_time_' = res.rtu_request_time
          /\ rtu_tx' = res.tx
          /\ rtu_log' = rtu_log \o res.tx
          /\ poll_target' = res.target
          /\ poll_event' = res.event
          /\ rtu_in' = rx
  /\ pc' = "publish"
  /\ tcp_in' = << >>
  /\ tcp_out' = << >>
  /\ tcp_copied' = FALSE
  /\ tcp_recv' = "none"
  /\ UNCHANGED << cfgVars, wireVars, tcpVars, last_sensor_publish_ms_, now, slot, tick, conns, nreq >>

(***************************************************************************)
(* Sensor publishing                                                       *)
(***************************************************************************)
\* void SunSpecProxy::publish_source_sensors_(int idx): the values published
publish_source_sensors_(idx) ==
  LET s == sources_[idx]
      age_s == IF s.data_valid THEN U32Div(U32Sub(now, s.last_poll_ms), 1000) ELSE 999
      online == s.data_valid /\ age_s < (poll_interval_ms_ \div 1000) * 3
      V(x) == IF s.data_valid THEN x ELSE NaN
      Z(x) == IF s.data_valid THEN x ELSE 0
  IN [ power |-> V(s.power_w), voltage |-> V(s.voltage_v), current |-> V(s.current_a),
       energy |-> V(s.energy_kwh), today_energy |-> V(s.today_energy_wh),
       frequency |-> V(s.frequency_hz), temperature |-> V(s.temperature_c),
       pv_voltage |-> V(s.pv_voltage_v), pv_current |-> V(s.pv_current_a),
       pv_power |-> V(s.pv_power_w),
       alarm_code |-> Z(s.alarm_code), alarm_count |-> Z(s.alarm_count),
       link_status |-> Z(s.link_status),
       poll_ok |-> s.poll_success_count,
       poll_fail |-> s.poll_fail_count + s.poll_timeout_count + s.crc_error_count,
       online |-> online ]

\* void SunSpecProxy::publish_aggregate_sensors_()
publish_aggregate_sensors_ == aggv

\* void SunSpecProxy::publish_tcp_sensors_()
publish_tcp_sensors_ ==
  LET active == Cardinality({ i \in DOMAIN client_fds_ : client_fds_[i] >= 0 })
      victron_active == active > 0
                        /\ U32Lt(U32Sub(now, last_tcp_activity_ms_), U32Of(30000))
      pct == register_map_[OFF_M123 + 2 + 5]
      ena == register_map_[OFF_M123 + 2 + 8]
  IN [ clients |-> active, requests |-> tcp_request_count_, errors |-> tcp_error_count_,
       victron_connected |-> victron_active,
       victron_status |-> IF ~victron_active /\ active = 0 THEN "No connection"
                          ELSE IF ~victron_active THEN "Connected, idle"
                          ELSE "Active",
       power_limit |-> IF ena = 1 THEN FDivI(F(pct), 10) ELSE F(100) ]

\* loop(): "Periodic sensor publishing", the end of the iteration; the next
\* iteration starts gap ms later, gap one of gaps.
PublishAfter(gaps) ==
  /\ pc = "publish"
  /\ IF U32Ge(U32Sub(now, last_sensor_publish_ms_), U32Of(SENSOR_PUBLISH_INTERVAL_MS))
     THEN /\ last_sensor_publish_ms_' = now
          /\ published' =
               [ sources |-> [i \in 0..(num_sources_ - 1) |-> publish_source_sensors_(i)],
                 aggregate |-> publish_aggregate_sensors_,
                 tcp |-> publish_tcp_sensors_,
                 status |-> [i \in 0..(num_sources_ - 1) |->
                               IF sources_[i].data_valid
                               THEN update_source_status_(sources_[i], now)
                               ELSE published.status[i]] ]
     ELSE UNCHANGED << last_sensor_publish_ms_, published >>
  /\ \E gap \in gaps : now' = U32Add(now, gap)
  /\ tick' = tick + 1
  /\ pc' = "accept"
  /\ tcp_in' = << >>
  /\ tcp_out' = << >>
  /\ tcp_copied' = FALSE
  /\ tcp_recv' = "none"
  /\ rtu_tx' = << >>
  /\ rtu_in' = NoRx
  /\ poll_event' = "none"
  /\ UNCHANGED << cfgVars, wireVars, sources_, register_map_, aggv, tcpVars, pollVars,
                  slot, conns, nreq, rtu_log >>

Publish == PublishAfter(LoopGaps)

(***************************************************************************)
(* Specification                                                           *)
(***************************************************************************)
\* the requests the clients send
Unit == agg_config_.unit_id
Requests ==
  { MbapRead(258, Unit, 40000, 2),
    MbapRead(258, Unit, 40108, 1),
    MbapRead(258, Unit, 40082, 1),
    MbapRead(258, Unit, SUNSPEC_BASE + OFF_INV + 2, MODEL_103_SIZE),
    MbapRead(258, Unit, 40000, 126),
    MbapWriteSingle(258, Unit, 40157, 330),
    MbapWriteSingle(258, Unit, 40160, 1),
    MbapWriteSingle(258, Unit, 40151, 7),
    MbapWriteSingle(258, Unit + 1, 40160, 1) }

TcpRecv == TcpRecvData(Requests)
Poll == PollWith(RtuInputs)

Next == TcpAccept \/ TcpRecvNoData \/ TcpRecv \/ Poll \/ Publish

Spec == Init /\ [][Next]_vars

\* The same program with a wider set of client requests (the boundaries of
\* the register image and of the writable Model 123 slice, oversized
\* counts, foreign unit ids, unsupported function codes) and a DTU that
\* either answers a complete block or stays silent.
ReadStarts == { 0, 39999, 40000, 40053, 40054, 40108, 40177, 40178, 40179, 65535 }
ReadCounts == { 0, 1, 2, 125, 126, 65535 }
WriteRegs == { 39999, 40000, 40151, 40152, 40157, 40160, 40175, 40176, 65535 }
WriteVals == { 1, 330 }
WideRequests ==
  { MbapRead(258, Unit, a, c) : a \in ReadStarts, c \in ReadCounts }
  \cup { MbapWriteSingle(258, Unit, r, v) : r \in WriteRegs, v \in WriteVals }
  \cup { MbapRead(258, Unit + 1, 40000, 2),
         MbapWriteSingle(258, Unit + 1, 40160, 1),
         MbapWriteSingle(258, 0, 40157, 330),
         MbapWriteMultiple(258, Unit + 1, 40157, << 330, 0, 0, 1 >>),
         MbapOther(258, Unit + 1, 1),
         MbapWriteMultiple(258, Unit, 40157, << 330, 0, 0, 1 >>),
         MbapOther(258, Unit, 1) }
QuietRtuInputs == { RxNothing, RxGood(BlockProducing) }

TcpRecvWide == TcpRecvData(WideRequests)
PollQuiet == PollWith(QuietRtuInputs)

NextTcp == TcpAccept \/ TcpRecvNoData \/ TcpRecvWide \/ PollQuiet \/ Publish

SpecTcp == Init /\ [][NextTcp]_vars

\* The same program with a client that writes the power-limit controls: every
\* WMaxLimPct of LimitPcts together with WMaxLim_Ena on or off in one Write
\* Multiple Registers, each word alone by Write Single Register, and writes
\* of the Model 123 payload that end just before, start just after or lie
\* between the two words.
LimitPcts == { 0, 5, 19, 20, 330, 1000, 1009, 1010, 2000, 65535 }
LimitEnas == { 0, 1, 2 }
LimitRequests ==
  { MbapWriteMultiple(258, Unit, 40157, << p, 65535, 65535, e >>) :
      p \in LimitPcts, e \in { 0, 1 } }
  \cup { MbapWriteSingle(258, Unit, 40157, p) : p \in { 5, 1000, 2000 } }
  \cup { MbapWriteSingle(258, Unit, 40160, e) : e \in LimitEnas }
  \cup { MbapWriteSingle(258, Unit, 40158, 7),
         MbapWriteMultiple(258, Unit, 40158, << 7, 8 >>),
         MbapWriteMultiple(258, Unit, 40152, << 0, 1, 65535, 65535, 65535 >>),
         MbapWriteMultiple(258, Unit, 40156, << 0, 330 >>),
         MbapWriteMultiple(258, Unit, 40160, << 1, 0 >>),
         MbapWriteSingle(258, Unit, 40151, 330) }

TcpRecvLimit == TcpRecvData(LimitRequests)

NextLimit == TcpAccept \/ TcpRecvNoData \/ TcpRecvLimit \/ PollQuiet \/ Publish

SpecLimit == Init /\ [][NextLimit]_vars

\* The same program followed over more iterations of loop() with clients
\* that connect and disconnect but send nothing, a DTU that answers a
\* complete block or stays silent, and a steady loop time.
ConnTicks == 6
ConnConnects == 6
SteadyGaps == { 1000 }

TcpAcceptConn == TcpAcceptWithin(ConnTicks, ConnConnects)
PublishSteady == PublishAfter(SteadyGaps)

NextConn == TcpAcceptConn \/ TcpRecvNoData \/ PollQuiet \/ PublishSteady

SpecConn == Init /\ [][NextConn]_vars

\* The same program with a client that sends odd frames: Write Multiple
\* Registers requests whose count, byte-count field and length disagree or
\* whose count is 0, 100 or 101, function codes the proxy does not serve,
\* frames cut short, another protocol id, another unit, and two
\* transaction ids.
OtherFcs == { 0, 1, 2, 4, 5, 15, 23, 43, 131, 255 }
FrameTxns == { 258, 65535 }
WordsOf(n) == [k \in 1..n |-> 65535]
OddFrames ==
  { MbapOther(t, Unit, fc) : t \in FrameTxns, fc \in OtherFcs }
  \cup { MbapOther(258, Unit + 1, 1), MbapOther(258, Unit, 16),
         MbapRead(65535, Unit, 40000, 126),
         MbapWriteSingle(65535, Unit, 40151, 7),
         SubSeq(MbapRead(258, Unit, 40000, 2), 1, 7),
         SubSeq(MbapRead(258, Unit, 40000, 2), 1, 11),
         SubSeq(MbapWriteSingle(258, Unit, 40157, 330), 1, 11),
         << 1, 2, 0, 1, 0, 6, Unit, 3, 156, 64, 0, 2 >> }
  \cup { MbapWriteMultipleRaw(258, Unit, 40157, 1, 2, << 1, 74 >>),
         MbapWriteMultipleRaw(258, Unit, 40157, 1, 0, << 1, 74 >>),
         MbapWriteMultipleRaw(258, Unit, 40157, 1, 4, << 1, 74, 0, 1 >>),
         MbapWriteMultipleRaw(258, Unit, 40157, 2, 4, << 1, 74 >>),
         MbapWriteMultipleRaw(258, Unit, 40157, 2, 2, << 1, 74 >>),
         MbapWriteMultipleRaw(258, Unit, 40157, 0, 0, << >>),
         MbapWriteMultipleRaw(258, Unit, 40152, 101, 202, WordsBE(WordsOf(101))),
         MbapWriteMultipleRaw(258, Unit, 40152, 100, 200, WordsBE(WordsOf(100))),
         MbapWriteMultipleRaw(258, Unit, 40152, 24, 48, WordsBE(WordsOf(24))),
         SubSeq(MbapWriteMultipleRaw(258, Unit, 40157, 200, 0, << >>), 1, 12) }

TcpRecvFrames == TcpRecvData(OddFrames)

NextFrames == TcpAccept \/ TcpRecvNoData \/ TcpRecvFrames \/ PollQuiet \/ Publish

SpecFrames == Init /\ [][NextFrames]_vars

\* The same program with a client that writes around the edges of the
\* writable Model 123 slice (offsets 152..175): ranges below it, above it,
\* across either edge, over all of it and within it, and empty ranges, by
\* Write Single and Write Multiple Registers.  The values written differ
\* from everything setup() stores in the slice.
RangeVals(n) == [k \in 1..n |-> 1000 + k]
RangeWrites ==
  { << 39999, 1 >>, << 40100, 100 >>, << 40150, 2 >>, << 40151, 0 >>, << 40151, 1 >>,
    << 40151, 2 >>, << 40151, 26 >>, << 40152, 25 >>, << 40175, 2 >>, << 40176, 1 >>,
    << 40177, 0 >>, << 65535, 2 >>,
    << 40152, 24 >>, << 40152, 5 >>, << 40158, 2 >>, << 40161, 15 >>, << 40175, 1 >>,
    << 40152, 0 >>, << 40157, 0 >>, << 40160, 0 >>, << 40176, 0 >>,
    << 40157, 1 >>, << 40156, 2 >>, << 40159, 2 >> }
RangeRequests ==
  { MbapWriteMultiple(258, Unit, w[1], RangeVals(w[2])) : w \in RangeWrites }
  \cup { MbapWriteSingle(258, Unit, r, 1001) :
           r \in { 39999, 40151, 40152, 40156, 40158, 40175, 40176, 65535 } }

TcpRecvRange == TcpRecvData(RangeRequests)

NextRange == TcpAccept \/ TcpRecvNoData \/ TcpRecvRange \/ PollQuiet \/ Publish

SpecRange == Init /\ [][NextRange]_vars

\* The same program configured with no source, one, eight, or more calls of
\* add_rtu_source than sources_ has room for, followed long enough for the
\* poller to go round eight sources, with a DTU that answers every request
\* and a client that writes the power limit.
SourceCalls == { 0, 1, 8, 9 }
RoundTicks == 16
RoundRequests ==
  { MbapWriteSingle(258, Unit, 40157, 330),
    MbapWriteMultiple(258, Unit, 40157, << 5, 65535, 65535, 1 >>) }
TcpAcceptRound == TcpAcceptWithin(RoundTicks, MaxConnects)
TcpRecvRound == TcpRecvData(RoundRequests)
PollAnswered == PollWith({ RxGood(BlockProducing) })
InitRound == InitFor(SourceCalls, { U32Of(t) : t \in FirstLoopMs })
NextRound == TcpAcceptRound \/ TcpRecvNoData \/ TcpRecvRound \/ PollAnswered \/ PublishSteady
SpecRound == InitRound /\ [][NextRound]_vars

\* The poller alone, followed over more iterations of loop(): no client
\* connects, the DTU answers in every way of RtuInputs, and millis(), a
\* free-running 32-bit counter, may be about to wrap around when the first
\* iteration followed starts (2^32 - 2000 ms).
PollTicks == 6
LateLoopMs == { << 65535, 63536 >> }

InitPoll == InitAt({ U32Of(t) : t \in FirstLoopMs } \cup LateLoopMs)
TcpAcceptNone == TcpAcceptWithin(PollTicks, 0)

NextPoll == TcpAcceptNone \/ Poll \/ Publish

SpecPoll == InitPoll /\ [][NextPoll]_vars

\* ... with loop() called again and again, as the main loop of the firmware
\* does
FairPoll == SpecPoll /\ WF_vars(NextPoll)

\* The poller and the TCP side together over PollTicks iterations of loop():
\* setup_tcp_server_ has failed or not, one client may connect and leave.
SetupConnects == 1
TcpAcceptSetup == TcpAcceptWithin(PollTicks, SetupConnects)
NextSetup == TcpAcceptSetup \/ TcpRecvNoData \/ Poll \/ Publish
SpecSetup == Init /\ [][NextSetup]_vars
FairSetup == SpecSetup /\ WF_vars(NextSetup)

\* The framing layer alone: a frame is built from a PDU with its CRC
\* trailer, one of its bits may be flipped on the line, and
\* read_rtu_response_ reads it.  The PDUs: the request frames of the poller
\* and of forward_power_limit_, the read request 01 03 00 00 00 0A, an
\* exception response, the answers of the DTU for each block, a short
\* answer, and PDUs of one and two bytes.
PduOf(f) == << f.addr, f.fc >> \o put_be16(f.reg) \o put_be16(f.val)
BlockPdu(block, regs) ==
  << dtu_address_, 3, 2 * regs >> \o WordsBE([k \in 1..regs |-> block[k - 1]])
WirePdus ==
  { PduOf(send_rtu_request_(dtu_address_, 3, HM_DATA_BASE + p * HM_PORT_STRIDE,
                            HM_PORT_REGS, FALSE)) : p \in 0..1 }
  \cup { PduOf(RtuFrame(dtu_address_, 6, 49159, 50, FALSE)),
         PduOf(RtuFrame(dtu_address_, 5, 49158, 65280, FALSE)),
         << 1, 3, 0, 0, 0, 10 >>,
         << dtu_address_, 131, 2 >>,
         << 0, 0, 0 >>,
         << 255, 255, 255, 255 >>,
         << dtu_address_, 3 >>,
         << dtu_address_ >>,
         BlockPdu(BlockProducing, 33) }
  \cup { BlockPdu(b, HM_PORT_REGS) : b \in Blocks }

\* buf with bit k flipped (bit k % 8 of byte k \div 8)
FlipBit(buf, k) ==
  [buf EXCEPT ![(k \div 8) + 1] = XorBits(@, 2 ^ (k % 8), 8)]

WireBuild ==
  /\ wire.bytes = << >>
  /\ \E pdu \in WirePdus :
       wire' = [ pdu |-> pdu, bytes |-> WithCrc(pdu), flipped |-> FALSE ]
  /\ wire_read' = << >>
  /\ UNCHANGED progVars

WireFlip ==
  /\ wire.bytes # << >>
  /\ ~wire.flipped
  /\ wire_read = << >>
  /\ \E k \in 0..(8 * Len(wire.bytes) - 1) :
       wire' = [ wire EXCEPT !.bytes = FlipBit(wire.bytes, k), !.flipped = TRUE ]
  /\ UNCHANGED << progVars, wire_read >>

WireRead ==
  /\ wire.bytes # << >>
  /\ wire_read = << >>
  /\ wire_read' = << ReadBytes(wire.bytes) >>
  /\ UNCHANGED << progVars, wire >>

InitWire == Init /\ num_sources_ = 0 /\ server_fd_ < 0
NextWire == WireBuild \/ WireFlip \/ WireRead
SpecWire == InitWire /\ [][NextWire]_vars

(***************************************************************************)
(* Properties                                                              *)
(***************************************************************************)
\* how a Modbus/TCP frame reads on the wire
ReqUnit(buf) == buf[7]
ReqFc(buf) == buf[8]
ReqWord(buf, k) == buf[k + 1] * 256 + buf[k + 2]
WordBytes(w) == << w \div 256, w % 256 >>
\* the exception response to the request buf with exception code `code`
ExceptionFrame(buf, code) ==
  << buf[1], buf[2], 0, 0, 0, 3, ReqUnit(buf), ReqFc(buf) + 128, code >>
\* the register map index of a word of the inverter model
InvReg(k) == OFF_INV + 2 + k
\* what a poll leaves on a source besides the decoded values
Outcome(s) ==
  << s.data_valid, s.last_poll_ms, s.poll_success_count, s.poll_fail_count,
     s.poll_timeout_count, s.crc_error_count >>

\* C1: a call of poll_rtu_sources_ that starts with rtu_busy_ set writes no
\* frame to the bus and sends no read request, whatever the UART holds and
\* whatever the TCP clients did before.
C1_SingleInFlight ==
  [][(pc = "poll" /\ rtu_busy_) => (rtu_tx' = << >> /\ poll_event' # "sent")]_vars

\* a poll that started with a request outstanding, found nothing on the
\* UART before the timeout, and left the request outstanding
C1_Witness == poll_event = "waiting" /\ rtu_busy_ /\ rtu_tx = << >> /\ poll_target >= 0

\* C2: every frame written to the RS-485 bus, the power-limit frames of
\* forward_power_limit_ included, is written while rtu_busy_ is false.
C2_BusQuietWhileBusy == \A k \in DOMAIN rtu_tx : ~rtu_tx[k].busy

\* C3: when a read request ends (response, error or timeout), the outcome is
\* recorded on the source the request addressed and on no other source.
C3_OutcomeOnAddressedSource ==
  [][(pc = "poll" /\ rtu_busy_ /\ ~rtu_busy_') =>
       /\ Outcome(sources_'[poll_target]) # Outcome(sources_[poll_target])
       /\ \A i \in DOMAIN sources_ :
            i # poll_target => Outcome(sources_'[i]) = Outcome(sources_[i])]_vars

\* C4: with one single-phase source, after a successful poll whose block
\* reports PV power P (0 < P < 32768), grid voltage V, frequency f, lifetime
\* energy E and temperature T, the register map holds INV_W = P,
\* INV_PhVphA = 10 V, INV_Hz = f, INV_WH = E (high word first),
\* INV_TmpCab = 10 T and INV_St = 4.
C4_SingleSourceRegisters ==
  (/\ poll_event = "success"
   /\ num_sources_ = 1
   /\ sources_[0].phases = 1
   /\ rtu_in.regs[HM_PV_POWER] > 0
   /\ rtu_in.regs[HM_PV_POWER] < 32768)
  => /\ register_map_[InvReg(INV_W)] = rtu_in.regs[HM_PV_POWER]
     /\ register_map_[InvReg(INV_PhVphA)] = (10 * rtu_in.regs[HM_GRID_VOLTAGE]) % U16
     /\ register_map_[InvReg(INV_Hz)] = rtu_in.regs[HM_GRID_FREQ]
     /\ register_map_[InvReg(INV_WH)] = rtu_in.regs[HM_TOTAL_PROD_H]
     /\ register_map_[InvReg(INV_WH + 1)] = rtu_in.regs[HM_TOTAL_PROD_L]
     /\ register_map_[InvReg(INV_TmpCab)] = ToU16(10 * ToS16(rtu_in.regs[HM_TEMPERATURE]))
     /\ register_map_[InvReg(INV_St)] = 4

\* C5: after an aggregation pass INV_St is 4 if some valid source's last
\* successful poll reported positive PV power, and 2 otherwise.
C5_OperatingState ==
  poll_event = "success" =>
    register_map_[InvReg(INV_St)] =
      (IF \E i \in DOMAIN sources_ : sources_[i].data_valid /\ sources_[i].pv_power_w > 0
       THEN 4 ELSE 2)

\* C6: after the call of poll_rtu_sources_ that processes a successful poll,
\* the polled source's power_w is the PV power of the response and its
\* producing flag is (PV power > 0).
C6_DecodedPower ==
  poll_event = "success" =>
    /\ sources_[poll_target].power_w = F(rtu_in.regs[HM_PV_POWER])
    /\ sources_[poll_target].producing = (rtu_in.regs[HM_PV_POWER] > 0)

\* C7: a Write Single Register request for the served unit is answered with
\* exception 0x02, leaving the register map and the bus alone, when the
\* register is outside [40152, 40176); inside it the word of the register
\* map becomes the written value and the response echoes register and value.
C7_WriteSingleRegion ==
  [][(/\ tcp_in' # << >>
      /\ Len(tcp_in') = 12
      /\ ReqWord(tcp_in', 2) = 0
      /\ ReqFc(tcp_in') = 6
      /\ ReqUnit(tcp_in') = Unit)
     => IF ReqWord(tcp_in', 8) >= 40000 + 152 /\ ReqWord(tcp_in', 8) < 40000 + 176
        THEN /\ register_map_' =
                  [register_map_ EXCEPT ![ReqWord(tcp_in', 8) - 40000] = ReqWord(tcp_in', 10)]
             /\ tcp_out' = << << tcp_in'[1], tcp_in'[2], 0, 0, 0, 6, Unit, 6 >>
                              \o WordBytes(ReqWord(tcp_in', 8))
                              \o WordBytes(ReqWord(tcp_in', 10)) >>
        ELSE /\ register_map_' = register_map_
             /\ rtu_tx' = << >>
             /\ tcp_out' = << ExceptionFrame(tcp_in', 2) >>]_vars

\* a write to the last writable register (40175) was accepted and echoed
C7_Witness ==
  /\ tcp_in = MbapWriteSingle(258, Unit, 40175, 330)
  /\ register_map_[175] = 330
  /\ tcp_out = << tcp_in >>

\* C8: a Read Holding Registers request for the served unit with
\* count <= 125 is answered, when start >= 40000 and
\* start - 40000 + count <= 178, with byte count 2 * count and the words
\* start - 40000 .. start - 40000 + count - 1 of the register map as it is
\* when the request arrives, big-endian; otherwise with exception 0x02.
C8_ReadRange ==
  [][(/\ tcp_in' # << >>
      /\ Len(tcp_in') = 12
      /\ ReqWord(tcp_in', 2) = 0
      /\ ReqFc(tcp_in') = 3
      /\ ReqUnit(tcp_in') = Unit
      /\ ReqWord(tcp_in', 10) <= 125)
     => LET start == ReqWord(tcp_in', 8)
            count == ReqWord(tcp_in', 10)
        IN IF start >= 40000 /\ start - 40000 + count <= 178
           THEN /\ Len(tcp_out') = 1
                /\ Len(tcp_out'[1]) = 9 + 2 * count
                /\ SubSeq(tcp_out'[1], 1, 9) =
                     << tcp_in'[1], tcp_in'[2], 0, 0 >> \o WordBytes(3 + 2 * count)
                     \o << Unit, 3, 2 * count >>
                /\ \A k \in 0..(count - 1) :
                     << tcp_out'[1][10 + 2 * k], tcp_out'[1][11 + 2 * k] >>
                       = WordBytes(register_map_[start - 40000 + k])
           ELSE tcp_out' = << ExceptionFrame(tcp_in', 2) >>]_vars

\* 125 registers read up to the last register of the map, after a write
\* changed the power limit
C8_Witness ==
  /\ tcp_in = MbapRead(258, Unit, 40053, 125)
  /\ Len(tcp_out) = 1
  /\ Len(tcp_out[1]) = 259
  /\ register_map_[157] = 330

\* C9: a Read Holding Registers request for the served unit with
\* count > 125 is answered with exception 0x03 whatever its start address,
\* and read_sunspec_registers_ copies nothing out of the register map.
C9_ReadCountLimit ==
  (/\ tcp_in # << >>
   /\ Len(tcp_in) = 12
   /\ ReqWord(tcp_in, 2) = 0
   /\ ReqFc(tcp_in) = 3
   /\ ReqUnit(tcp_in) = Unit
   /\ ReqWord(tcp_in, 10) > 125)
  => (tcp_out = << ExceptionFrame(tcp_in, 3) >> /\ ~tcp_copied)

\* 126 registers requested from inside the map were refused
C9_Witness ==
  /\ tcp_in = MbapRead(258, Unit, 40000, 126)
  /\ tcp_out = << << 1, 2, 0, 0, 0, 3, Unit, 131, 3 >> >>

\* C10: a request for another unit is not answered, leaves the register map
\* unchanged and puts nothing on the RTU bus, whatever its function code.
C10_UnitFilter ==
  [][(/\ tcp_in' # << >>
      /\ Len(tcp_in') >= 8
      /\ ReqUnit(tcp_in') # Unit)
     => (tcp_out' = << >> /\ register_map_' = register_map_ /\ rtu_tx' = << >>)]_vars

\* a Write Multiple Registers to the power limit for another unit was dropped
C10_Witness ==
  /\ tcp_in = MbapWriteMultiple(258, Unit + 1, 40157, << 330, 0, 0, 1 >>)
  /\ tcp_out = << >>
  /\ tcp_request_count_ > 0

\* the frames of the bus log other than the read requests of the poller
IsCommand(f) == f.fc # 3
Commands == SelectSeq(rtu_log, IsCommand)
\* frame f is WriteSingleRegister(dtu, 0xC007 + 6 * port, v) / WriteSingleCoil(dtu,
\* 0xC006 + 6 * port, 0xFF00)
IsLimitFrame(f, port, v) ==
  f.addr = dtu_address_ /\ f.fc = 6 /\ f.reg = 49159 + 6 * port /\ f.val = v
IsCoilOn(f, port) ==
  f.addr = dtu_address_ /\ f.fc = 5 /\ f.reg = 49158 + 6 * port /\ f.val = 65280
\* the words of the Model 123 payload other than WMaxLimPct and WMaxLim_Ena
\* are as setup() left them
OtherControlsUntouched ==
  \A k \in 152..175 :
    (k # 157 /\ k # 160) => register_map_[k] = build_static_registers_(agg_config_)[k]

\* C11: once the client has written WMaxLimPct = 330 and WMaxLim_Ena = 1 to
\* the register map of setup(), by one request covering both words or by two
\* requests writing one word each, the bus has seen, for every source, one
\* WriteSingleRegister(dtu, 0xC007 + 6 * port, 33) followed by one
\* WriteSingleCoil(dtu, 0xC006 + 6 * port, 0xFF00), and no other command.
C11_LimitTranslation ==
  (/\ register_map_[157] = 330
   /\ register_map_[160] = 1
   /\ tcp_error_count_ = 0
   /\ \/ tcp_request_count_ = 1
      \/ tcp_request_count_ = 2 /\ OtherControlsUntouched)
  => /\ Len(Commands) = 2 * num_sources_
     /\ \A i \in DOMAIN sources_ :
          \E j, k \in DOMAIN Commands :
            /\ j < k
            /\ IsLimitFrame(Commands[j], sources_[i].port_number, 33)
            /\ IsCoilOn(Commands[k], sources_[i].port_number)


\* the state setup() leaves, before the first pass of loop()
AfterSetup == tick = 0 /\ pc = "accept" /\ conns = 0 /\ nreq = 0
\* the last step processed a client request that put frames on the bus
Forwarded == tcp_in # << >> /\ rtu_tx # << >>
\* floor(pct_raw / 10) held between 2 and 100
ClampPct(pct_raw) ==
  IF pct_raw \div 10 < 2 THEN 2
  ELSE IF pct_raw \div 10 > 100 THEN 100 ELSE pct_raw \div 10

\* C12: with the limit enabled, the value of every limit frame
\* forward_power_limit_ emits is floor(pct_raw / 10) held between 2 and 100:
\* for every pct_raw of 0..65535 on the configured sources, and for every
\* request of a client that leaves WMaxLim_Ena = 1 and is forwarded.
C12_LimitClamp ==
  /\ AfterSetup =>
       \A pct_raw \in 0..65535 :
         \A f \in { forward_power_limit_(sources_, num_sources_, pct_raw, TRUE, rtu_busy_)[k] :
                      k \in 1..(2 * num_sources_) } :
           /\ f.fc \in { 5, 6 }
           /\ f.fc = 6 => f.val = ClampPct(pct_raw)
  /\ (Forwarded /\ register_map_[160] = 1) =>
       \A k \in DOMAIN rtu_tx :
         rtu_tx[k].fc = 6 => rtu_tx[k].val = ClampPct(register_map_[157])

\* WMaxLimPct = 5 (0.5 %) was forwarded as 2 % to some source
C12_Witness ==
  /\ Forwarded
  /\ register_map_[160] = 1
  /\ register_map_[157] = 5
  /\ \E k \in DOMAIN rtu_tx : rtu_tx[k].fc = 6 /\ rtu_tx[k].val = 2


\* the frames of the last step are the last frames of the bus log
TxEndsLog ==
  /\ Len(rtu_log) >= Len(rtu_tx)
  /\ SubSeq(rtu_log, Len(rtu_log) - Len(rtu_tx) + 1, Len(rtu_log)) = rtu_tx

\* C13: a request that is forwarded with the limit enabled puts on the bus,
\* for the sources in index order, the limit frame of the source's port
\* directly followed by the on/off coil frame of that port, and nothing
\* else (no read request of the poller among them); for ports 0 and 1 the
\* registers are 0xC007, 0xC006, 0xC00D, 0xC00C.
C13_FrameOrder ==
  (Forwarded /\ register_map_[160] = 1)
  => /\ Len(rtu_tx) = 2 * num_sources_
     /\ TxEndsLog
     /\ \A i \in 0..(num_sources_ - 1) :
          /\ IsLimitFrame(rtu_tx[2 * i + 1], sources_[i].port_number,
                          ClampPct(register_map_[157]))
          /\ IsCoilOn(rtu_tx[2 * i + 2], sources_[i].port_number)
     /\ (/\ num_sources_ = 2
         /\ sources_[0].port_number = 0
         /\ sources_[1].port_number = 1)
        => << rtu_tx[1].reg, rtu_tx[2].reg, rtu_tx[3].reg, rtu_tx[4].reg >>
             = << 49159, 49158, 49165, 49164 >>

\* two sources at ports 0 and 1 received limit 33 %, in four frames
C13_Witness ==
  /\ Forwarded
  /\ register_map_[160] = 1
  /\ register_map_[157] = 330
  /\ num_sources_ = 2
  /\ sources_[0].port_number = 0
  /\ sources_[1].port_number = 1
  /\ Len(rtu_tx) = 4
  /\ rtu_tx[3].val = 33


\* C14: a request that is forwarded and leaves WMaxLim_Ena = 0 puts on the
\* bus, for every source, exactly one WriteSingleRegister(dtu,
\* 0xC007 + 6 * port, 100) and no coil frame.
C14_DisableRestores ==
  (Forwarded /\ register_map_[160] = 0)
  => /\ Len(rtu_tx) = num_sources_
     /\ TxEndsLog
     /\ \A i \in 0..(num_sources_ - 1) :
          IsLimitFrame(rtu_tx[i + 1], sources_[i].port_number, 100)

\* after a limit had been enabled, WMaxLim_Ena = 0 was written and both
\* sources were set back to 100 %
C14_Witness ==
  /\ tcp_in = MbapWriteSingle(258, Unit, 40160, 0)
  /\ register_map_[160] = 0
  /\ num_sources_ = 2
  /\ Len(rtu_tx) = 2
  /\ rtu_tx[1].val = 100 /\ rtu_tx[2].val = 100
  /\ \E k \in DOMAIN rtu_log : rtu_log[k].fc = 5


\* the last step accepted a Write Single or Write Multiple Registers request
\* (it answered with the echo, not with an exception)
WriteAccepted ==
  /\ tcp_in # << >>
  /\ ReqFc(tcp_in) \in { 6, 16 }
  /\ Len(tcp_out) = 1
  /\ tcp_out[1][8] = ReqFc(tcp_in)

\* C15: with at least one source configured, an accepted write puts command
\* frames on the bus if and only if it changes the value stored in
\* WMaxLimPct (word 157) or in WMaxLim_Ena (word 160).
C15_ForwardOnChange ==
  [][(WriteAccepted' /\ num_sources_ > 0)
     => (rtu_tx' # << >>
         <=> (\/ register_map_'[157] # register_map_[157]
              \/ register_map_'[160] # register_map_[160]))]_vars


\* the words the request buf asks to write, and the offset of the first
WrittenOffset(buf) == ReqWord(buf, 8) - SUNSPEC_BASE
WrittenWords(buf) ==
  IF ReqFc(buf) = 6 THEN << ReqWord(buf, 10) >>
  ELSE [k \in 1..ReqWord(buf, 10) |-> ReqWord(buf, 11 + 2 * k)]

\* C16: when an accepted write has put command frames on the bus, every
\* written word is in the register map, and the frames carry the limit and
\* the enable flag the register map holds after the write: limit
\* ClampPct(WMaxLimPct) and the coil when WMaxLim_Ena = 1, limit 100 and no
\* coil otherwise.
C16_StoreBeforeForward ==
  (WriteAccepted /\ rtu_tx # << >>)
  => /\ \A k \in DOMAIN WrittenWords(tcp_in) :
          register_map_[WrittenOffset(tcp_in) + k - 1] = WrittenWords(tcp_in)[k]
     /\ \A k \in DOMAIN rtu_tx :
          /\ rtu_tx[k].fc \in { 5, 6 }
          /\ rtu_tx[k].fc = 5 => register_map_[160] = 1
          /\ rtu_tx[k].fc = 6 =>
               rtu_tx[k].val = IF register_map_[160] = 1
                               THEN ClampPct(register_map_[157]) ELSE 100
     /\ register_map_[160] = 1 => \E k \in DOMAIN rtu_tx : rtu_tx[k].fc = 5

\* the first request wrote WMaxLimPct = 5 and WMaxLim_Ena = 1 over the
\* values of setup() (1000 and 0) and the new values went to the bus
C16_Witness ==
  /\ num_sources_ > 0
  /\ tcp_in = MbapWriteMultiple(258, Unit, 40157, << 5, 65535, 65535, 1 >>)
  /\ tcp_request_count_ = 1
  /\ register_map_[157] = 5
  /\ register_map_[160] = 1
  /\ Len(rtu_tx) = 2 * num_sources_
  /\ rtu_tx[1].val = 2
  /\ rtu_tx[2].fc = 5


\* the scale factors of the inverter model: index in the payload, value
ScaleFactors ==
  << <<INV_A_SF, -2>>, <<INV_V_SF, -1>>, <<INV_W_SF, 0>>, <<INV_Hz_SF, -2>>,
     <<INV_VA_SF, 0>>, <<INV_VAr_SF, 0>>, <<INV_PF_SF, -2>>, <<INV_WH_SF, 0>>,
     <<INV_DCA_SF, -2>>, <<INV_DCV_SF, -1>>, <<INV_DCW_SF, 0>>, <<INV_Tmp_SF, -1>> >>

\* C17: in every reachable state the twelve scale-factor words of the
\* inverter block hold A_SF = -2, V_SF = -1, W_SF = 0, Hz_SF = -2, VA_SF = 0,
\* VAr_SF = 0, PF_SF = -2, WH_SF = 0, DCA_SF = -2, DCV_SF = -1, DCW_SF = 0,
\* Tmp_SF = -1 as 16-bit two's complement.
C17_ScaleFactors ==
  \A k \in DOMAIN ScaleFactors :
    register_map_[InvReg(ScaleFactors[k][1])] = (ScaleFactors[k][2] + 65536) % 65536

\* a poll succeeded, the aggregator wrote the inverter block and a client
\* changed the power limit
C17_Witness ==
  /\ \E i \in DOMAIN sources_ : sources_[i].poll_success_count > 0
  /\ register_map_[InvReg(INV_W)] # 65535
  /\ register_map_[157] = 330
  /\ register_map_[InvReg(INV_Tmp_SF)] = 65535


\* C18: a step of loop() changes a word of the register map only inside the
\* inverter payload (72..121), and then it is the poller's step (which runs
\* the aggregator), or inside the Model 123 payload (152..175), and then it
\* is the step that processes a client request; the SunS signature, the
\* Common block, the model headers, the Nameplate block and the End marker
\* never change.
C18_ImageFrame ==
  [][\A k \in 0..(TOTAL_REGS - 1) :
       register_map_'[k] # register_map_[k]
       => \/ k \in 72..121 /\ pc = "poll"
          \/ k \in 152..175 /\ pc = "recv"]_vars

\* the aggregator has written the inverter payload and a client the last
\* writable word, and the words around them are those of setup()
C18_Witness ==
  /\ register_map_[InvReg(INV_W)] # 65535
  /\ register_map_[175] = 330
  /\ register_map_[176] = 65535
  /\ register_map_[151] = 24
  /\ register_map_[70] \in { 101, 103 }
  /\ register_map_[122] = 120


\* C19: the register map setup() leaves holds 0x5375, 0x6e53 at 0..1; 1, 66
\* at 2..3; 101 (one phase) or 103 (three phases), 50 at 70..71; 120, 26 at
\* 122..123; 123, 24 at 150..151; 0xFFFF, 0 at 176..177; and in the payload
\* of Model 123 (152..175) Conn = 1 at index 2, WMaxLimPct_SF = -1 at index
\* 3, WMaxLimPct = 1000 at index 5, WMaxLim_Ena = 0 at index 8 and 0xFFFF
\* in every other word.
C19_StaticImage ==
  AfterSetup =>
    /\ << register_map_[0], register_map_[1] >> = << 21365, 28243 >>
    /\ << register_map_[2], register_map_[3] >> = << 1, 66 >>
    /\ << register_map_[70], register_map_[71] >>
         = << IF agg_config_.phases = 1 THEN 101 ELSE 103, 50 >>
    /\ << register_map_[122], register_map_[123] >> = << 120, 26 >>
    /\ << register_map_[150], register_map_[151] >> = << 123, 24 >>
    /\ << register_map_[176], register_map_[177] >> = << 65535, 0 >>
    /\ \A k \in 0..23 :
         register_map_[152 + k] = CASE k = 2 -> 1
                                    [] k = 3 -> 65535
                                    [] k = 5 -> 1000
                                    [] k = 8 -> 0
                                    [] OTHER -> 65535

\* setup() has built the register map of a three-phase aggregate
C19_Witness ==
  /\ AfterSetup
  /\ agg_config_.phases = 3
  /\ register_map_[70] = 103
  /\ register_map_[157] = 1000
  /\ register_map_[177] = 0


\* one single-phase source is configured and no poll of it has succeeded
IdleSingleSource ==
  /\ num_sources_ = 1
  /\ sources_[0].phases = 1
  /\ sources_[0].poll_success_count = 0
\* the response to a Read Holding Registers request buf for one register:
\* the single word w
OneWordResponse(buf, w) ==
  << << buf[1], buf[2], 0, 0, 0, 5, ReqUnit(buf), 3, 2 >> \o WordBytes(w) >>

\* C20 (as the code has it): with one single-phase source and no successful
\* poll so far, a Read Holding Registers request for the served unit reads
\* the single word 2 at 40108, the register of INV_St (40000 + 70 + 2 + 36),
\* and 0xFFFF at 40082, the register of INV_PhVphC.
C20_IdleStateRegister ==
  IdleSingleSource
  => /\ tcp_in = MbapRead(258, Unit, 40108, 1) => tcp_out = OneWordResponse(tcp_in, 2)
     /\ tcp_in = MbapRead(258, Unit, 40082, 1) => tcp_out = OneWordResponse(tcp_in, 65535)

\* C20 (as stated): with one single-phase source and no successful poll so
\* far, Read Holding Registers (40082, 1) for the served unit returns the
\* single word 2.
C20_Read40082 ==
  (IdleSingleSource /\ tcp_in = MbapRead(258, Unit, 40082, 1))
  => tcp_out = OneWordResponse(tcp_in, 2)

\* register 40108 was read after a poll of the only source had failed
C20_Witness ==
  /\ IdleSingleSource
  /\ sources_[0].poll_timeout_count + sources_[0].poll_fail_count > 0
  /\ tcp_in = MbapRead(258, Unit, 40108, 1)
  /\ tcp_out = << << 1, 2, 0, 0, 0, 5, Unit, 3, 2, 0, 2 >> >>


\* the slots of client_fds_ that hold a connection
ActiveSlots(fds) == { i \in DOMAIN fds : fds[i] >= 0 }

\* C21: client_fds_ has MAX_TCP_CLIENTS = 4 slots, so at most 4 are active;
\* when accept() returns a connection while all 4 are active the slots stay
\* exactly as they were (the connection is closed within the call), and
\* when a slot is free the connection takes the free slot of lowest index
\* and the other slots stay as they were.
C21_ClientSlots ==
  [][/\ DOMAIN client_fds_' = 0..3
     /\ Cardinality(ActiveSlots(client_fds_')) <= 4
     /\ (pc = "accept" /\ conns' = conns + 1)
        => IF ActiveSlots(client_fds_) = 0..3
           THEN client_fds_' = client_fds_
           ELSE \E i \in 0..3 :
                  /\ client_fds_[i] < 0
                  /\ \A j \in 0..3 : j < i => client_fds_[j] >= 0
                  /\ client_fds_'[i] = 10 + conns
                  /\ \A j \in 0..3 : j # i => client_fds_'[j] = client_fds_[j]]_vars

\* a fifth connection arrived while the first four were still open and was
\* turned away
C21_Witness ==
  /\ conns = 5
  /\ client_fds_ = [i \in 0..3 |-> 10 + i]
  /\ pc # "accept"


\* more than ms milliseconds lie between the 32-bit clock values b and a,
\* counted modulo 2^32 (ms < 65536)
ElapsedOver(a, b, ms) ==
  LET dh == (a[1] - b[1]) % 65536
      v == dh * 65536 + (a[2] - b[2])
  IN dh >= 2 \/ v < 0 \/ v > ms
\* the sum of the counter f over the sources
RECURSIVE SumField(_, _, _)
SumField(srcs, n, f) ==
  IF n = 0 THEN 0 ELSE SumField(srcs, n - 1, f) + srcs[n - 1][f]
\* the counters of all the sources
Counters(srcs) ==
  [i \in DOMAIN srcs |->
     << srcs[i].poll_success_count, srcs[i].poll_fail_count,
        srcs[i].poll_timeout_count, srcs[i].crc_error_count >>]

\* C22: a call of poll_rtu_sources_ that waits for a response and reads
\* fewer than 5 bytes ends the wait if and only if more than rtu_timeout_ms_
\* have passed since the request (counted modulo 2^32): then rtu_busy_ is
\* cleared and the timeout counters grow by exactly one in total; otherwise
\* the poller keeps waiting and no counter changes.
C22_TimeoutBound ==
  [][(pc = "poll" /\ num_sources_ > 0 /\ rtu_busy_ /\ rtu_in'.n < 5)
     => IF ElapsedOver(now, rtu_request_time_, rtu_timeout_ms_)
        THEN /\ ~rtu_busy_'
             /\ poll_event' = "timeout"
             /\ SumField(sources_', num_sources_, "poll_timeout_count")
                  = SumField(sources_, num_sources_, "poll_timeout_count") + 1
             /\ SumField(sources_', num_sources_, "poll_fail_count")
                  = SumField(sources_, num_sources_, "poll_fail_count")
        ELSE /\ rtu_busy_'
             /\ poll_event' = "waiting"
             /\ Counters(sources_') = Counters(sources_)]_vars

\* a request sent 2000 ms before the clock wrapped timed out after the wrap
C22_Witness ==
  /\ poll_event = "timeout"
  /\ rtu_request_time_ = << 65535, 63536 >>
  /\ now[1] = 0
  /\ ~rtu_busy_


\* the last iteration of loop() from whose start the poller is certain to
\* send its next request within the iterations followed: a wait that began
\* one iteration earlier ends after four more, and the request follows
ProgressFrom == PollTicks - 5
\* the read request for the block of source i is in the bus log
Requested(i) ==
  \E k \in DOMAIN rtu_log :
    /\ rtu_log[k].fc = 3
    /\ rtu_log[k].reg = HM_DATA_BASE + sources_[i].port_number * HM_PORT_STRIDE

\* C23: with loop() called again and again, (a) every request the poller
\* sends is for the source after the one of its previous request, in index
\* order modulo num_sources_; (b) whichever source is next and whatever the
\* DTU does, answering or not, the request for that source is sent; (c)
\* every configured source is requested.
C23_RoundRobinProgress ==
  /\ [][poll_event' = "sent"
        => /\ poll_target' = current_poll_source_
           /\ current_poll_source_' = (current_poll_source_ + 1) % num_sources_
           /\ poll_target >= 0 => poll_target' = (poll_target + 1) % num_sources_
           /\ Len(rtu_tx') = 1
           /\ rtu_tx'[1].reg = HM_DATA_BASE
                                 + sources_[poll_target'].port_number * HM_PORT_STRIDE]_vars
  /\ \A i \in 0..(MaxSources - 1) :
       (num_sources_ > i /\ current_poll_source_ = i /\ pc = "accept" /\ tick <= ProgressFrom)
         ~> (poll_event = "sent" /\ poll_target = i)
  /\ <>(\A i \in 0..(num_sources_ - 1) : Requested(i))

\* the second source was requested after the first one had never answered
C23_Witness ==
  /\ num_sources_ = 2
  /\ poll_event = "sent"
  /\ poll_target = 1
  /\ sources_[0].poll_timeout_count + sources_[1].poll_timeout_count = 1
  /\ sources_[0].poll_success_count + sources_[1].poll_success_count = 0


\* the poller is waiting and the call of poll_rtu_sources_ of this step reads
\* a frame of at least 5 bytes from the UART
ReadsFrame == pc = "poll" /\ num_sources_ > 0 /\ rtu_busy_ /\ rtu_in'.n >= 5

\* C24: when the frame read fails the CRC check, crc_error_count and
\* poll_fail_count of the source the request addressed grow by one, nothing
\* else of that source changes (data_valid and the decoded values in
\* particular), the register map and the aggregate values stay as they
\* were, and the poller is idle again.
C24_CrcFailure ==
  [][(ReadsFrame /\ ~rtu_in'.crc_ok)
     => /\ sources_'[poll_target] =
             [sources_[poll_target] EXCEPT !.crc_error_count = @ + 1,
                                           !.poll_fail_count = @ + 1]
        /\ register_map_' = register_map_
        /\ aggv' = aggv
        /\ ~rtu_busy_']_vars


\* the source records without their failure counter
WithoutPollFail(srcs) ==
  [i \in DOMAIN srcs |-> [srcs[i] EXCEPT !.poll_fail_count = 0]]

Failures == { "timeout", "crc", "exception", "short", "unexpected" }

\* C26: a step in which a read request fails (timeout, CRC mismatch,
\* exception response, short payload, unexpected function code) leaves the
\* poller idle with current_poll_source_ at the source after the one the
\* failed request addressed; every request sent addresses
\* sources_[current_poll_source_]; and with loop() called again and again
\* a request is sent after the failure.
C26_FailuresNotFatal ==
  /\ [][/\ poll_event' \in Failures
           => /\ ~rtu_busy_'
              /\ current_poll_source_' = (poll_target + 1) % num_sources_
              /\ poll_target' = poll_target
        /\ (poll_event' = "sent" /\ ~rtu_busy_)
           => /\ poll_target' = current_poll_source_
              /\ rtu_busy_']_vars
  /\ \A e \in Failures :
       (poll_event = e /\ tick <= ProgressFrom) ~> (poll_event = "sent")

\* after a CRC failure on the request for the first of two sources, the
\* request for the second one went out
C26_Witness ==
  /\ num_sources_ = 2
  /\ poll_event = "sent"
  /\ poll_target = 1
  /\ sources_[0].crc_error_count + sources_[1].crc_error_count = 1
  /\ sources_[0].poll_success_count + sources_[1].poll_success_count = 0
  /\ Len(rtu_log) = 2


\* the last buffer received is a Write Multiple Registers request for the
\* served unit
IsWriteMultiple(buf) ==
  /\ Len(buf) >= 8
  /\ ReqWord(buf, 2) = 0
  /\ ReqUnit(buf) = Unit
  /\ ReqFc(buf) = 16
\* its count is above 100, or its byte-count field or its length is not the
\* one of a request with that count
Malformed(buf) ==
  \/ Len(buf) < 13
  \/ ReqWord(buf, 10) > 100
  \/ buf[13] # 2 * ReqWord(buf, 10)
  \/ Len(buf) # 13 + 2 * ReqWord(buf, 10)

\* C27: a Write Multiple Registers request for the served unit whose count
\* is above 100, or whose byte-count field or received length does not
\* match 2 * count, is answered with exception 0x03 and leaves the register
\* map and the bus alone.
C27_WriteMultipleMalformed ==
  [][(tcp_in' # << >> /\ IsWriteMultiple(tcp_in') /\ Malformed(tcp_in'))
     => /\ tcp_out' = << ExceptionFrame(tcp_in', 3) >>
        /\ register_map_' = register_map_
        /\ rtu_tx' = << >>]_vars


\* the request buf has passed the header tests of process_tcp_request_ and
\* names the served unit
ForServedUnit(buf) ==
  /\ Len(buf) >= 8
  /\ ReqWord(buf, 2) = 0
  /\ ReqUnit(buf) = Unit
\* a sent frame is an exception response: the top bit of its function code
IsException(frame) == frame[8] >= 128
\* the exception response to the request buf: transaction id and unit id of
\* the request, protocol id 0, length 3, function code with the top bit set
\* and one exception code
ExceptionTo(buf, frame) ==
  /\ Len(frame) = 9
  /\ << frame[1], frame[2] >> = << buf[1], buf[2] >>
  /\ << frame[3], frame[4], frame[5], frame[6] >> = << 0, 0, 0, 3 >>
  /\ frame[7] = ReqUnit(buf)
  /\ frame[8] = (ReqFc(buf) % 128) + 128
  /\ frame[9] \in { 1, 2, 3 }
ExceptionsIn(frames) == Cardinality({ k \in DOMAIN frames : IsException(frames[k]) })

\* C28: a request for the served unit with a function code other than 0x03,
\* 0x06 and 0x10 is answered with exception 0x01; every exception response
\* carries the transaction id and unit id of the request, its function code
\* with the top bit set and one exception code; tcp_error_count_ grows by
\* one for each exception response sent, and by nothing else.
C28_ExceptionResponses ==
  [][/\ (tcp_in' # << >> /\ ForServedUnit(tcp_in') /\ ReqFc(tcp_in') \notin { 3, 6, 16 })
        => /\ Len(tcp_out') = 1
           /\ ExceptionTo(tcp_in', tcp_out'[1])
           /\ tcp_out'[1][9] = 1
     /\ \A k \in DOMAIN tcp_out' :
          IsException(tcp_out'[k]) => ExceptionTo(tcp_in', tcp_out'[k])
     /\ tcp_error_count_' = tcp_error_count_ + ExceptionsIn(tcp_out')]_vars

\* an unsupported function code with transaction id 0xFFFF has been answered
\* after an earlier exception
C28_Witness ==
  /\ tcp_in # << >>
  /\ ForServedUnit(tcp_in)
  /\ ReqFc(tcp_in) = 43
  /\ ReqWord(tcp_in, 0) = 65535
  /\ tcp_out = << << 255, 255, 0, 0, 0, 3, Unit, 171, 1 >> >>
  /\ tcp_error_count_ = 2


\* what the poller reports when it has dealt with an answer or its absence
Settled == { "success", "short", "exception", "unexpected", "crc", "timeout" }

\* C29: when socket(), bind() or listen() failed in setup, server_fd_ stays
\* negative, no iteration of loop() accepts a connection, fills a client
\* slot or reads a request, and the poller still sends its requests and
\* deals with what comes back.
C29_SetupFailure ==
  /\ [][server_fd_ < 0
        => /\ server_fd_' = server_fd_
           /\ client_fds_' = client_fds_
           /\ ActiveSlots(client_fds_') = { }
           /\ conns' = conns
           /\ pc' # "recv"
           /\ tcp_in' = << >>
           /\ tcp_out' = << >>]_vars
  /\ (server_fd_ < 0 /\ num_sources_ > 0 /\ pc = "accept" /\ tick <= ProgressFrom)
       ~> (server_fd_ < 0 /\ poll_event = "sent")
  /\ (server_fd_ < 0 /\ poll_event = "sent" /\ tick <= ProgressFrom)
       ~> (server_fd_ < 0 /\ poll_event \in Settled)

\* without a server socket, a second answer has been decoded
C29_Witness ==
  /\ server_fd_ < 0
  /\ client_fds_ = [i \in 0..(MAX_TCP_CLIENTS - 1) |-> -1]
  /\ poll_event = "success"
  /\ tick >= 3
  /\ \E i \in 0..(num_sources_ - 1) : sources_[i].poll_success_count = 2


IsReadServed(buf) ==
  /\ buf # << >>
  /\ Len(buf) >= 12
  /\ ForServedUnit(buf)
  /\ ReqFc(buf) = 3
  /\ ReqWord(buf, 10) <= 125
  /\ ReqWord(buf, 8) >= SUNSPEC_BASE
  /\ ReqWord(buf, 8) - SUNSPEC_BASE + ReqWord(buf, 10) <= TOTAL_REGS
\* the words a read response carries after its byte count
ResponseWords(frame) ==
  [k \in 1..((Len(frame) - 9) \div 2) |-> frame[8 + 2 * k] * 256 + frame[9 + 2 * k]]
\* the words of the register map `map` the request buf asks for
ImageSlice(map, buf) ==
  [k \in 1..ReqWord(buf, 10) |-> map[ReqWord(buf, 8) - SUNSPEC_BASE + k - 1]]

\* C31: the words of a Read Holding Registers response are the words of the
\* register map as one call of process_tcp_request_ finds it: the step that
\* answers a read leaves the map alone and runs no aggregation, and the step
\* that aggregates (a successful poll) answers no request; so every word of
\* one response is from before, or every word is from after, any given
\* aggregation.
C31_ReadNotTorn ==
  [][/\ IsReadServed(tcp_in')
        => /\ Len(tcp_out') = 1
           /\ ResponseWords(tcp_out'[1]) = ImageSlice(register_map_, tcp_in')
           /\ register_map_' = register_map_
           /\ aggv' = aggv
           /\ poll_event' = "none"
     /\ (register_map_' # register_map_ /\ poll_event' # "none")
        => tcp_in' = << >> /\ tcp_out' = << >>]_vars

\* the whole inverter payload was read after an aggregation had changed it
C31_Witness ==
  /\ IsReadServed(tcp_in)
  /\ ReqWord(tcp_in, 8) = SUNSPEC_BASE + OFF_INV + 2
  /\ ReqWord(tcp_in, 10) = MODEL_103_SIZE
  /\ \E i \in 0..(num_sources_ - 1) : sources_[i].data_valid
  /\ ResponseWords(tcp_out[1]) = ImageSlice(register_map_, tcp_in)
  /\ \E k \in 0..(MODEL_103_SIZE - 1) :
       register_map_[OFF_INV + 2 + k]
         # build_static_registers_(agg_config_)[OFF_INV + 2 + k]


\* a read request (function code 0x03) is among the frames of the last step
ReadRequestIn(frames) == \E k \in DOMAIN frames : frames[k].fc = 3

\* C32: a read request goes on the bus only in a call of poll_rtu_sources_
\* that finds the poller idle and now - last_poll_time_ at or above
\* poll_interval_ms_ / num_sources_; it is the one frame Read Holding
\* Registers to dtu_address_, start 0x1000 + 0x28 * port of the current
\* source, count 40; and in that call rtu_busy_ is set, rtu_request_time_
\* and last_poll_time_ become now, and current_poll_source_ advances by one
\* modulo num_sources_.
C32_PollRequest ==
  [][ReadRequestIn(rtu_tx')
     => /\ pc = "poll"
        /\ num_sources_ > 0
        /\ ~rtu_busy_
        /\ ElapsedOver(now, last_poll_time_, (poll_interval_ms_ \div num_sources_) - 1)
        /\ Len(rtu_tx') = 1
        /\ << rtu_tx'[1].addr, rtu_tx'[1].fc, rtu_tx'[1].reg, rtu_tx'[1].val >>
             = << dtu_address_, 3,
                  4096 + 40 * sources_[current_poll_source_].port_number, 40 >>
        /\ rtu_busy_'
        /\ rtu_request_time_' = now
        /\ last_poll_time_' = now
        /\ now' = now
        /\ current_poll_source_' = (current_poll_source_ + 1) % num_sources_]_vars

\* the request for the second of two sources has just been sent, the 32-bit
\* clock having wrapped since setup
C32_Witness ==
  /\ num_sources_ = 2
  /\ poll_event = "sent"
  /\ poll_target = 1
  /\ current_poll_source_ = 0
  /\ ReadRequestIn(rtu_tx)
  /\ rtu_tx[1].reg = 4096 + 40 * sources_[1].port_number
  /\ rtu_busy_
  /\ last_poll_time_ = now
  /\ rtu_request_time_ = now
  /\ now[1] = 0


\* C33: each iteration of the recv loop is on an active slot; recv()
\* returning 0 frees the slot (close, then client_fds_[i] = -1), a failure
\* with EAGAIN or EWOULDBLOCK leaves every slot as it was, a failure with
\* another errno frees the slot, received data leaves the slots alone; no
\* other slot changes, the loop goes on with the next active slot, and a
\* freed slot is one the next accept() may fill.
C33_RecvOutcomes ==
  [][pc = "recv"
     => /\ client_fds_[slot] >= 0
        /\ tcp_recv' \in { "closed", "again", "error", "data" }
        /\ tcp_recv' \in { "closed", "error" }
             => /\ client_fds_'[slot] = -1
                /\ slot \notin ActiveSlots(client_fds_')
                /\ \A j \in 0..3 : j # slot => client_fds_'[j] = client_fds_[j]
        /\ tcp_recv' \in { "again", "data" } => client_fds_' = client_fds_
        /\ IF \E j \in ActiveSlots(client_fds_') : j > slot
           THEN /\ pc' = "recv"
                /\ slot' > slot
                /\ slot' \in ActiveSlots(client_fds_')
                /\ \A j \in ActiveSlots(client_fds_') : j > slot => slot' <= j
           ELSE pc' = "poll"]_vars

\* the first slot, freed after a failed recv(), holds the third connection
\* while the second connection is still in the second slot
C33_Witness ==
  /\ client_fds_[0] = 12
  /\ client_fds_[1] = 11
  /\ tcp_recv = "again"
  /\ conns = 3


\* C34: after the call of poll_rtu_sources_ that processes a successful
\* poll, the raw_regs of a source hold the register block of that response
\* (whichever source took the outcome).
C34_RawRegsHoldBlock ==
  poll_event = "success" =>
    \E i \in DOMAIN sources_ :
      /\ sources_[i].data_valid
      /\ \A k \in 0..(HM_PORT_REGS - 1) : sources_[i].raw_regs[k] = rtu_in.regs[k]


\* data_valid of a source, once set, stays set
ValidKept ==
  \A i \in DOMAIN sources_ : sources_[i].data_valid => sources_'[i].data_valid

\* C35: no call clears data_valid of a source once a successful poll has
\* set it, whatever timeouts, CRC errors, exceptions and short answers
\* follow; and every aggregation adds up the last polled values of the
\* sources whose data_valid is set: the aggregate power is the sum of the
\* PV power of their last successful polls.
C35_ValidMonotone ==
  [][/\ ValidKept
     /\ poll_event' = "success"
        => aggv'.power_w = SumField(sources_', num_sources_, "pv_power_w")]_vars


\* the number of read requests written to the bus since setup()
ReadsSent == Cardinality({ k \in DOMAIN rtu_log : rtu_log[k].fc = 3 })
\* the requests whose outcome has been counted
Accounted ==
  SumField(sources_, num_sources_, "poll_success_count")
  + SumField(sources_, num_sources_, "poll_fail_count")
  + SumField(sources_, num_sources_, "poll_timeout_count")

\* C36: the successes, failures and timeouts of all the sources add up to
\* the number of read requests sent, less the one still outstanding when
\* rtu_busy_ is set; and no source has more CRC errors than failures.
C36_RequestsAccounted ==
  /\ Accounted = ReadsSent - (IF rtu_busy_ THEN 1 ELSE 0)
  /\ \A i \in DOMAIN sources_ :
       sources_[i].crc_error_count <= sources_[i].poll_fail_count

\* three requests were sent and ended in a success, a CRC error and a
\* timeout
C36_Witness ==
  /\ ReadsSent = 3
  /\ ~rtu_busy_
  /\ SumField(sources_, num_sources_, "poll_success_count") = 1
  /\ SumField(sources_, num_sources_, "crc_error_count") = 1
  /\ SumField(sources_, num_sources_, "poll_fail_count") = 1
  /\ SumField(sources_, num_sources_, "poll_timeout_count") = 1


\* The poller when the answer of the DTU reaches the UART in pieces.  A call
\* of read_rtu_response_ finds the n bytes buf; poll_rtu_sources_ takes
\* resp[1], resp[2] and the words be16(&resp[3 + 2*i]) for i below
\* resp[2] / 2, whether or not they lie within the n bytes read: resp[] is
\* a local array without initialiser, so the words beyond the bytes read are
\* indeterminate (here zeros, or what an earlier answer left there).
StaleWords ==
  { [k \in 0..63 |-> 0],
    [k \in 0..63 |-> IF k < HM_PORT_REGS THEN BlockIdle[k] ELSE 0] }
RxBytes(buf, stale) ==
  RtuRx(Len(buf), CrcMatches(buf), buf[2], buf[3],
        [k \in 0..(Min(buf[3] \div 2, 64) - 1) |->
           IF 5 + 2 * k <= Len(buf) THEN buf[4 + 2 * k] * 256 + buf[5 + 2 * k]
           ELSE stale[k]])
\* the block of a producing inverter whose register 1 (the first two
\* characters of the serial number) has the value of the CRC of the five
\* bytes before it on the line
BlockEarlyCrc ==
  [BlockProducing EXCEPT ![1] =
     be16(CrcTrailer(calc_crc16_(<< dtu_address_, 3, 2 * HM_PORT_REGS >>
                                 \o put_be16(BlockProducing[0]), 5)), 0)]
SplitFrames == { WithCrc(BlockPdu(b, HM_PORT_REGS)) : b \in { BlockProducing, BlockEarlyCrc } }
\* a frame whole, its first 4 and 7 bytes, and what follows them
Pieces(frame) ==
  { frame, SubSeq(frame, 1, 4), SubSeq(frame, 5, Len(frame)),
    SubSeq(frame, 1, 7), SubSeq(frame, 8, Len(frame)) }
SplitRtuInputs ==
  { RxNothing } \cup { RxBytes(buf, stale) : buf \in UNION { Pieces(f) : f \in SplitFrames },
                                            stale \in StaleWords }
PollSplit == PollWith(SplitRtuInputs)
NextSplit == TcpAcceptNone \/ PollSplit \/ Publish
SpecSplit == Init /\ [][NextSplit]_vars

\* C37: in a call of poll_rtu_sources_ with a request outstanding, fewer
\* than 5 bytes read leave no trace (the call waits on, or times out, as if
\* nothing had been read), 5 bytes or more end the request in that call as
\* success, failure or CRC error, and a success is counted only when the
\* bytes read in that call are a whole frame: address, function code, byte
\* count, that many payload bytes and the CRC.
C37_WholeFrameInOneCall ==
  [][(pc = "poll" /\ num_sources_ > 0 /\ rtu_busy_)
     => /\ rtu_in'.n < 5
           => /\ poll_event' \in { "waiting", "timeout" }
              /\ poll_event' = "timeout"
                   <=> ElapsedOver(now, rtu_request_time_, rtu_timeout_ms_)
              /\ poll_event' = "waiting"
                   => UNCHANGED << sources_, register_map_, aggv, pollVars >>
        /\ rtu_in'.n >= 5
           => /\ poll_event' \in { "success", "short", "exception", "unexpected", "crc" }
              /\ ~rtu_busy_'
        /\ poll_event' = "success" => rtu_in'.n = 5 + rtu_in'.b2]_vars


\* a write request that reaches write_sunspec_registers_: a Write Single
\* Register of 12 bytes or more, or a Write Multiple Registers of at most
\* 100 words that are all there
WriteStart(buf) == ReqWord(buf, 8)
WriteCount(buf) == IF ReqFc(buf) = 6 THEN 1 ELSE ReqWord(buf, 10)
IsRangedWrite(buf) ==
  /\ Len(buf) >= 12
  /\ ReqWord(buf, 2) = 0
  /\ ReqUnit(buf) = Unit
  /\ \/ ReqFc(buf) = 6
     \/ /\ ReqFc(buf) = 16
        /\ ReqWord(buf, 10) <= 100
        /\ Len(buf) >= 13 + 2 * ReqWord(buf, 10)
RangeWritable(start, count) == start >= 40152 /\ start + count <= 40176

Covers(start, count, k) ==
  /\ start <= SUNSPEC_BASE + OFF_M123 + 2 + k
  /\ SUNSPEC_BASE + OFF_M123 + 2 + k < start + count

\* C39: an accepted write whose range contains neither WMaxLimPct nor
\* WMaxLim_Ena, a Write Multiple of no words included, is echoed, puts no
\* frame on the RTU bus, and changes nothing but the words it writes: the
\* rest of the register map, the sources, the aggregate, the poller, the
\* clock and the error counter stay as they were.
C39_PlainWrite ==
  [][(/\ tcp_in' # << >>
      /\ IsRangedWrite(tcp_in')
      /\ RangeWritable(WriteStart(tcp_in'), WriteCount(tcp_in'))
      /\ ~Covers(WriteStart(tcp_in'), WriteCount(tcp_in'), 5)
      /\ ~Covers(WriteStart(tcp_in'), WriteCount(tcp_in'), 8))
     => /\ register_map_' =
             [i \in DOMAIN register_map_ |->
                IF /\ i >= WrittenOffset(tcp_in')
                   /\ i < WrittenOffset(tcp_in') + WriteCount(tcp_in')
                THEN WrittenWords(tcp_in')[i - WrittenOffset(tcp_in') + 1]
                ELSE register_map_[i]]
        /\ rtu_tx' = << >>
        /\ rtu_log' = rtu_log
        /\ tcp_out' = << SubSeq(tcp_in', 1, 4) \o << 0, 6 >> \o SubSeq(tcp_in', 7, 12) >>
        /\ UNCHANGED << cfgVars, sources_, aggv, pollVars, client_fds_, tcp_error_count_,
                        now, last_sensor_publish_ms_, published >>]_vars

\* with a source configured, a Write Multiple of no words at WMaxLimPct was
\* accepted and echoed, and the bus stayed silent
C39_Witness ==
  /\ num_sources_ > 0
  /\ tcp_in = MbapWriteMultiple(258, Unit, 40157, << >>)
  /\ tcp_out = << << 1, 2, 0, 0, 0, 6, Unit, 16 >> \o WordBytes(40157) \o WordBytes(0) >>
  /\ rtu_tx = << >>
  /\ rtu_log = << >>


\* C40: in every state 0 <= num_sources_ <= 8 and, with a source
\* configured, 0 <= current_poll_source_ < num_sources_; with no source
\* configured poll_rtu_sources_ returns at once (no request, rtu_busy_ never
\* set, no division by num_sources_) and no frame ever goes to the RTU bus,
\* a power-limit write included.
C40_SourceBounds ==
  /\ 0 <= num_sources_
  /\ num_sources_ <= MAX_RTU_SOURCES
  /\ DOMAIN sources_ = 0..(num_sources_ - 1)
  /\ num_sources_ > 0 => (0 <= current_poll_source_ /\ current_poll_source_ < num_sources_)
  /\ num_sources_ = 0 =>
       /\ ~rtu_busy_
       /\ poll_event = "none"
       /\ current_poll_source_ = 0
       /\ rtu_tx = << >>
       /\ rtu_log = << >>

\* nine calls of add_rtu_source left eight sources, and the poller has gone
\* round all of them and is back at the first
C40_Witness ==
  /\ num_sources_ = MAX_RTU_SOURCES
  /\ current_poll_source_ = 0
  /\ poll_event = "sent"
  /\ poll_target = MAX_RTU_SOURCES - 1

\* with no source configured, a write of WMaxLimPct and WMaxLim_Ena was
\* accepted and the poller has been called
C40_NoSourceWrite ==
  /\ num_sources_ = 0
  /\ tcp_in = MbapWriteMultiple(258, Unit, 40157, << 5, 65535, 65535, 1 >>)
  /\ register_map_[160] = 1
  /\ tick >= 1

=============================================================================
